---- MODULE Spec2Model ----
(***************************************************************************)
(* A model of the analytics core of the graduate-employment dashboard:     *)
(* backend/analytics/employment_trends.py, salary_correlation.py and       *)
(* enrollment_analysis.py.  The four CSV relations are the data source,    *)
(* every query function is one action that reads them and leaves its       *)
(* outcome (a returned structure or a raised exception) in `result`.       *)
(*                                                                         *)
(* Numbers are exact rationals.  A float64 cell is a record                *)
(*   [k |-> kind, n |-> numerator, d |-> denominator]                      *)
(* of kind "num" (n/d in lowest terms, d > 0), "nan", "inf", "ninf",       *)
(* "none" (Python's None) or "txt" (a CSV cell that is not a number).      *)
(***************************************************************************)
EXTENDS Integers, Sequences, FiniteSets, TLC

VARIABLES
    ges,             \* GES_cleaned.csv: sequence of survey rows
    schools_lookup,  \* schools_lookup.csv: sequence of [school_id, school_name]
    enrol,           \* Enrolment_cleaned.csv: sequence of rows
    grad,            \* Graduates_cleaned.csv: sequence of rows
    call,            \* the function called last and its arguments
    frame,           \* the working data frame of that call after its joins
    result,          \* what that call returned or raised
    unreadable,      \* the relations whose file cannot be read
    request,         \* the HTTP request being answered, if any
    response,        \* the HTTP response given to it
    loader           \* load_data_to_mysql.main: its position, connection and output

vars == <<ges, schools_lookup, enrol, grad, call, frame, result,
          unreadable, request, response, loader>>

----------------------------------------------------------------------------
(* Bounds of the model *)

MaxArr == 3

MaxTrendRows == 3

MaxGes == 2

MaxLookup == 2

MaxCount == 2

MaxRaw == 2

\* calls in progress at the same time
MaxCalls == 2

----------------------------------------------------------------------------
(* float64 values and their arithmetic *)

Abs(i) == IF i < 0 THEN -i ELSE i

RECURSIVE GCD(_, _)
GCD(a, b) == IF b = 0 THEN a ELSE GCD(b, a % b)

Num(n, d) ==
    LET g == GCD(Abs(n), Abs(d))
        s == IF d < 0 THEN -1 ELSE 1
    IN  [k |-> "num", n |-> (s * n) \div g, d |-> (s * d) \div g]

I(n) == [k |-> "num", n |-> n, d |-> 1]

NaN == [k |-> "nan", n |-> 0, d |-> 1]

PosInf == [k |-> "inf", n |-> 1, d |-> 1]

NegInf == [k |-> "ninf", n |-> -1, d |-> 1]

None == [k |-> "none", n |-> 0, d |-> 1]

Txt == [k |-> "txt", n |-> 0, d |-> 1]

IsNum(v) == v.k = "num"

\* np.isnan / pd.isna on a float cell
isnan(v) == v.k \in {"nan", "none"}

notna(v) == ~isnan(v)

Sign(v) == IF v.n > 0 THEN 1 ELSE IF v.n < 0 THEN -1 ELSE 0

Less(a, b) == a.n * b.d < b.n * a.d

Leq(a, b) == a.n * b.d <= b.n * a.d

\* IEEE addition, subtraction, multiplication and division
FAdd(a, b) ==
    IF isnan(a) \/ isnan(b) THEN NaN
    ELSE IF IsNum(a) /\ IsNum(b) THEN Num(a.n * b.d + b.n * a.d, a.d * b.d)
    ELSE IF IsNum(a) THEN b
    ELSE IF IsNum(b) THEN a
    ELSE IF a.k = b.k THEN a ELSE NaN

FNeg(a) ==
    IF IsNum(a) THEN Num(-a.n, a.d)
    ELSE IF a.k = "inf" THEN NegInf
    ELSE IF a.k = "ninf" THEN PosInf ELSE a

FSub(a, b) == FAdd(a, FNeg(b))

FMul(a, b) ==
    IF isnan(a) \/ isnan(b) THEN NaN
    ELSE IF IsNum(a) /\ IsNum(b) THEN Num(a.n * b.n, a.d * b.d)
    ELSE IF Sign(a) * Sign(b) > 0 THEN PosInf
    ELSE IF Sign(a) * Sign(b) < 0 THEN NegInf ELSE NaN

FDiv(a, b) ==
    IF isnan(a) \/ isnan(b) THEN NaN
    ELSE IF IsNum(a) /\ IsNum(b) THEN
        IF b.n # 0 THEN Num(a.n * b.d, a.d * b.n)
        ELSE IF a.n > 0 THEN PosInf
        ELSE IF a.n < 0 THEN NegInf ELSE NaN
    ELSE IF IsNum(a) THEN Num(0, 1)
    ELSE IF IsNum(b) THEN
        (IF Sign(a) * (IF b.n < 0 THEN -1 ELSE 1) > 0 THEN PosInf ELSE NegInf)
    ELSE NaN

Pow10(p) == IF p = 0 THEN 1 ELSE IF p = 1 THEN 10 ELSE IF p = 2 THEN 100 ELSE 1000

\* n/d (d > 0) to the nearest integer, a tie to the even one
RoundInt(n, d) ==
    LET q == n \div d
        r == n % d
    IN  IF 2 * r < d THEN q
        ELSE IF 2 * r > d THEN q + 1
        ELSE IF q % 2 = 0 THEN q ELSE q + 1

\* round(v, p): NaN and the infinities round to themselves
Round(v, p) ==
    IF IsNum(v) THEN Num(RoundInt(v.n * Pow10(p), v.d), Pow10(p)) ELSE v

----------------------------------------------------------------------------
(* Series helpers *)

RECURSIVE SumSeq(_)
SumSeq(s) == IF s = <<>> THEN I(0) ELSE FAdd(Head(s), SumSeq(Tail(s)))

Valid(s) == SelectSeq(s, notna)

\* Series.sum(): missing values are skipped, an empty sum is 0
SeriesSum(s) == SumSeq(Valid(s))

MeanMissingAsZero(s) ==
    IF s = <<>> THEN NaN
    ELSE FDiv(SumSeq([i \in 1..Len(s) |-> IF notna(s[i]) THEN s[i] ELSE I(0)]), I(Len(s)))

\* Series.mean(): missing values are skipped, an empty mean is NaN
SeriesMean(s) ==
    IF Valid(s) = <<>> THEN NaN ELSE FDiv(SumSeq(Valid(s)), I(Len(Valid(s))))

Col(rows, f) == [i \in 1..Len(rows) |-> rows[i][f]]

RECURSIVE SortedSeq(_)
SortedSeq(S) ==
    IF S = {} THEN <<>>
    ELSE LET m == CHOOSE x \in S : \A y \in S : x <= y
         IN  <<m>> \o SortedSeq(S \ {m})

Range(s) == {s[i] : i \in 1..Len(s)}

SeqsUpTo(S, n) == UNION {[1..m -> S] : m \in 0..n}

----------------------------------------------------------------------------
(* salary_correlation.py: calculate_correlation *)

\* the pairs that survive mask = ~(isnan(x) | isnan(y))
MaskIdx(x, y) == {i \in 1..Len(x) : ~(isnan(x[i]) \/ isnan(y[i]))}

RECURSIVE SumOver(_, _, _)
SumOver(S, x, y) ==
    IF S = {} THEN I(0)
    ELSE LET i == CHOOSE j \in S : TRUE
         IN  FAdd(FMul(x[i], y[i]), SumOver(S \ {i}, x, y))

Ones(x) == [i \in 1..Len(x) |-> I(1)]

\* n * sum(a*b) - sum(a) * sum(b) over the index set S: n(n-1) times the covariance
Sxy(S, a, b) ==
    FSub(FMul(I(Cardinality(S)), SumOver(S, a, b)),
         FMul(SumOver(S, a, Ones(a)), SumOver(S, b, Ones(b))))

\* floor(1000 * sqrt(n/d)) for 0 <= n/d <= 1, one decimal digit at a time
SqrtDigit(n, d, base, scale) ==
    CHOOSE c \in base..(base + 9) :
        /\ c * c * d <= scale * n
        /\ (c = base + 9 \/ (c + 1) * (c + 1) * d > scale * n)

Sqrt1000(n, d) ==
    LET a == SqrtDigit(n, d, 0, 100)
        b == SqrtDigit(n, d, 10 * a, 10000)
        c == IF n = d THEN 1000 ELSE SqrtDigit(n, d, 10 * b, 1000000)
    IN  IF (2 * c + 1) * (2 * c + 1) * d <= 4000000 * n THEN c + 1 ELSE c

\* all values of x at the positions S are the same
Constant(S, x) == \A i, j \in S : x[i] = x[j]

\* np.cov subtracts from every value the float64 mean of its array, the values
\* summed left to right and the sum divided by n.  For n copies of v this is
\* the sign of mean - v: 0 for a whole number, whose sum and quotient are exact,
\* and for most decimal fractions; but 0.1 + 0.1 + 0.1 = 0.30000000000000004
\* and 0.30000000000000004 / 3 = 0.10000000000000002 (0.2 likewise), and there
\* the n equal values keep a deviation of one unit in the last place each.
MeanError(v, n) ==
    IF v.d = 1 THEN 0
    ELSE IF n = 3 /\ v \in {Num(1, 10), Num(2, 10)} THEN 1
    ELSE 0

DevSign(S, x) == MeanError(x[CHOOSE i \in S : TRUE], Cardinality(S))

\* the deviations of x at S from the mean computed for them are all exactly 0
ZeroVariance(S, x) == Constant(S, x) /\ DevSign(S, x) = 0

\* np.corrcoef(x, y)[0, 1] to 3 decimals: c_xy / sqrt(c_xx) / sqrt(c_yy).  A
\* zero c_xx or c_yy gives 0/0 = NaN.  Equal values whose mean is inexact have
\* equal nonzero deviations e: against an array that varies c_xy is e times
\* the sum of that array's deviations, which is 0 up to rounding, and so is the
\* quotient; against another such array the quotient is 1.
corrcoef(S, x, y) ==
    LET cxy == Sxy(S, x, y)
        cxx == Sxy(S, x, x)
        cyy == Sxy(S, y, y)
        q   == FMul(FDiv(cxy, cxx), FDiv(cxy, cyy))
    IN  IF ZeroVariance(S, x) \/ ZeroVariance(S, y) THEN NaN
        ELSE IF Constant(S, x) /\ Constant(S, y) THEN I(DevSign(S, x) * DevSign(S, y))
        ELSE IF Constant(S, x) \/ Constant(S, y) THEN I(0)
        ELSE Num(Sign(cxy) * Sqrt1000(q.n, q.d), 1000)

\* round(float(correlation), 3) if not np.isnan(correlation) else None
NanToNone(correlation) ==
    IF ~isnan(correlation) THEN Round(correlation, 3) ELSE None

calculate_correlation(x, y) ==
    LET S == MaskIdx(x, y)
    IN  IF Cardinality(S) < 2 THEN None
        ELSE NanToNone(corrcoef(S, x, y))

----------------------------------------------------------------------------
(* Least-squares slope: np.polyfit(x, y, 1)[0] over the index set S *)

polyfit_slope(S, x, y) == FDiv(Sxy(S, x, y), Sxy(S, x, x))

YearCol(rows) == [i \in 1..Len(rows) |-> I(rows[i].year)]

----------------------------------------------------------------------------
(* Raw CSV text and its conversion to a number *)

\* a cell still holding its CSV text, one character per element
Raw(chars) == [k |-> "raw", s |-> chars]

\* str.replace(pat, ""): every occurrence of pat, found left to right without
\* overlap, is removed; the result is not scanned again
RECURSIVE StrRemove(_, _)
StrRemove(s, pat) ==
    IF Len(s) < Len(pat) THEN s
    ELSE IF SubSeq(s, 1, Len(pat)) = pat
         THEN StrRemove(SubSeq(s, Len(pat) + 1, Len(s)), pat)
         ELSE <<Head(s)>> \o StrRemove(Tail(s), pat)

Digits == <<"0", "1", "2", "3", "4", "5", "6", "7", "8", "9">>

IsDigits(s) == \A i \in 1..Len(s) : \E j \in 1..Len(Digits) : Digits[j] = s[i]

DigitVal(c) == (CHOOSE j \in 1..Len(Digits) : Digits[j] = c) - 1

RECURSIVE DigitsValue(_)
DigitsValue(s) ==
    IF s = <<>> THEN 0
    ELSE 10 * DigitsValue(SubSeq(s, 1, Len(s) - 1)) + DigitVal(s[Len(s)])

RECURSIVE Ten(_)
Ten(p) == IF p = 0 THEN 1 ELSE 10 * Ten(p - 1)

\* digits, optionally with one decimal point among them; at least one digit
ParseUnsigned(s) ==
    LET digits == SelectSeq(s, LAMBDA c : c # ".")
    IN  IF Len(s) - Len(digits) > 1 \/ digits = <<>> \/ ~IsDigits(digits) THEN NaN
        ELSE IF Len(s) = Len(digits) THEN I(DigitsValue(s))
        ELSE Num(DigitsValue(digits),
                 Ten(Len(s) - (CHOOSE i \in 1..Len(s) : s[i] = ".")))

\* pd.to_numeric(text, errors="coerce") of one string: an optional sign and a
\* decimal numeral give its value, the empty string and any other text (among
\* them "nan") give NaN.  Exponents, blanks and "inf" are not in the alphabet
\* of the model.
to_numeric(s) ==
    IF s = <<>> THEN NaN
    ELSE IF Head(s) = "-" THEN FNeg(ParseUnsigned(Tail(s)))
    ELSE ParseUnsigned(s)

----------------------------------------------------------------------------
(* employment_trends.py *)

\* One cell of clean_employment_column(series).  Raw text: "%", "N.A." and
\* "na" are removed wherever they occur, an empty remainder becomes NA, the
\* rest goes through to_numeric.  A cell read_csv already parsed: the text of a
\* number parses back to that number, the text "nan" of a missing value and
\* text that is no number (Txt) give NaN.
clean_employment_column(c) ==
    IF c.k = "raw"
    THEN LET t == StrRemove(StrRemove(StrRemove(c.s, <<"%">>), <<"N", ".", "A", ".">>),
                            <<"n", "a">>)
         IN  IF t = <<>> THEN NaN ELSE to_numeric(t)
    ELSE IF IsNum(c) THEN c ELSE NaN

YearsOf(df) == {df[i].year : i \in 1..Len(df)}

OfYear(df, y) == SelectSeq(df, LAMBDA r : r.year = y)

CleanRates(df) ==
    [i \in 1..Len(df) |->
        [df[i] EXCEPT
            !.employment_rate_overall = clean_employment_column(@),
            !.employment_rate_ft_perm = clean_employment_column(@)]]

\* df.groupby("year")[[overall, ft_perm]].mean().reset_index(): one row per
\* year, ascending
TrendFrame(df) ==
    LET ys == SortedSeq(YearsOf(df))
    IN  [i \in 1..Len(ys) |->
            [year |-> ys[i],
             employment_rate_overall |->
                 SeriesMean(Col(OfYear(df, ys[i]), "employment_rate_overall")),
             employment_rate_ft_perm |->
                 SeriesMean(Col(OfYear(df, ys[i]), "employment_rate_ft_perm"))]]

\* trend_df = df.dropna(subset=["year", "employment_rate_overall"])
TrendValid(trend) ==
    {i \in 1..Len(trend) : notna(trend[i].employment_rate_overall)}

TooFewNever(n) == FALSE

TooFew(n) == n < 2

SlopeUnrounded3(v) == v

SlopeRound3(v) == Round(v, 3)

compute_trend_strength(trend) ==
    LET S == TrendValid(trend)
    IN  IF TooFew(Cardinality(S)) THEN None
        ELSE SlopeRound3(polyfit_slope(S, YearCol(trend),
                                       Col(trend, "employment_rate_overall")))

NanToNoneCell(v) == IF v.k = "nan" THEN None ELSE v

RatioUnguarded(overall, ft) == FDiv(ft, overall)

RatioGuarded(overall, ft) ==
    IF notna(overall) /\ notna(ft) /\ ~(IsNum(overall) /\ overall.n = 0)
    THEN FDiv(ft, overall) ELSE None

stability_ratio(latest) ==
    RatioGuarded(latest.employment_rate_overall, latest.employment_rate_ft_perm)

\* latest = trend.iloc[-1]
Latest(trend) == trend[Len(trend)]

employment_trend(csv) ==
    LET Report(trend) ==
        IF Len(trend) = 0
        THEN [status |-> "raise", exc |-> "IndexError"]   \* trend.iloc[-1]
        ELSE [status |-> "ok",
              value |->
                [trend |-> [i \in 1..Len(trend) |->
                     [year |-> trend[i].year,
                      employment_rate_overall |->
                          NanToNoneCell(trend[i].employment_rate_overall),
                      employment_rate_ft_perm |->
                          NanToNoneCell(trend[i].employment_rate_ft_perm)]],
                 kpis |->
                    [stability_ratio |-> stability_ratio(Latest(trend)),
                     avg_employment_rate_overall |->
                         SeriesMean(Col(trend, "employment_rate_overall")),
                     avg_employment_rate_ft_perm |->
                         SeriesMean(Col(trend, "employment_rate_ft_perm")),
                     trend_strength |-> compute_trend_strength(trend)]]]
    IN  Report(TrendFrame(CleanRates(csv)))

----------------------------------------------------------------------------
(* enrollment_analysis.py: calculate_trend *)

SlopeRound1(v) == Round(v, 1)

calculate_trend(years, values) ==
    LET S == {i \in 1..Len(values) : ~isnan(values[i])}
    IN  IF TooFew(Cardinality(S)) THEN None
        ELSE SlopeRound1(polyfit_slope(S, years, values))

----------------------------------------------------------------------------
(* enrollment_analysis.py: enrollment_graduate_analysis *)

\* pd.to_numeric(series, errors="coerce")
clean_numeric_column(c) == IF IsNum(c) THEN c ELSE NaN

CleanCount(df, col) ==
    [i \in 1..Len(df) |-> [df[i] EXCEPT ![col] = clean_numeric_column(@)]]

AllSexes(df) == df

\* df[df["sex"] == "MF"]
OnlyMF(df) == SelectSeq(df, LAMBDA r : r.sex = "MF")

\* an optional argument is the empty set (None) or a one-element set
Given(opt) == opt # {}

Val(opt) == CHOOSE v \in opt : TRUE

MinOf(S) == CHOOSE x \in S : \A y \in S : x <= y

MaxOf(S) == CHOOSE x \in S : \A y \in S : y <= x

DefaultStart == 2010

DefaultEnd == 2023

\* school names in their string order
SchoolNames == <<"NTU", "NUS", "SMU">>

NameRank(name) == CHOOSE i \in 1..Len(SchoolNames) : SchoolNames[i] = name

\* drop_duplicates() of the (school_id, school_name) pairs, first occurrence kept
RECURSIVE DropDuplicates(_, _)
DropDuplicates(s, seen) ==
    IF s = <<>> THEN <<>>
    ELSE IF Head(s) \in seen THEN DropDuplicates(Tail(s), seen)
    ELSE <<Head(s)>> \o DropDuplicates(Tail(s), seen \cup {Head(s)})

SchoolPairs(df) ==
    [i \in 1..Len(df) |-> [school_id |-> df[i].school_id, school_name |-> df[i].school_name]]

\* df.groupby("year")[col].sum().reset_index()
SumByYear(df, col) ==
    LET ys == SortedSeq(YearsOf(df))
    IN  [i \in 1..Len(ys) |->
            [year |-> ys[i], total |-> SeriesSum(Col(OfYear(df, ys[i]), col))]]

Lookup(byyear, y) ==
    IF \E i \in 1..Len(byyear) : byyear[i].year = y
    THEN byyear[CHOOSE i \in 1..Len(byyear) : byyear[i].year = y].total
    ELSE NaN

RateNoPercent(graduates, enrolment) == Round(FDiv(graduates, enrolment), 1)

\* (merged["graduates"] / merged["enrolment"] * 100).round(1)
CompletionRate(graduates, enrolment) ==
    Round(FMul(FDiv(graduates, enrolment), I(100)), 1)

\* pd.merge(enrol_by_year, grad_by_year, on="year", how="outer").sort_values("year")
MergeByYear(eby, gby) ==
    LET ys == SortedSeq(YearsOf(eby) \cup YearsOf(gby))
    IN  [i \in 1..Len(ys) |->
            LET e == Lookup(eby, ys[i])
                g == Lookup(gby, ys[i])
            IN  [year |-> ys[i], enrolment |-> e, graduates |-> g,
                 completion_rate |-> CompletionRate(g, e)]]

\* Series.ffill(): a missing value takes the last value before it
RECURSIVE Ffill(_, _)
Ffill(s, last) ==
    IF s = <<>> THEN <<>>
    ELSE LET v == IF isnan(Head(s)) THEN last ELSE Head(s)
         IN  <<v>> \o Ffill(Tail(s), v)

\* Series.pct_change() * 100 (missing values padded forward first)
PctChange(s) ==
    LET f == Ffill(s, NaN)
    IN  [i \in 1..Len(s) |->
            IF i = 1 THEN NaN
            ELSE FMul(FSub(FDiv(f[i], f[i - 1]), I(1)), I(100))]

OrNone(v) == IF notna(v) THEN v ELSE None

RoundOrNone(v, p) == IF notna(v) THEN Round(v, p) ELSE None

\* stable up to and including a magnitude of 100
TrendInterpretationInclusive(slope) ==
    IF slope = None THEN "insufficient"
    ELSE IF Leq(Num(Abs(slope.n), slope.d), I(100)) THEN "stable"
    ELSE IF slope.n > 0 THEN "increasing"
    ELSE "decreasing"

get_trend_interpretation(slope) ==
    IF slope = None THEN "insufficient"
    ELSE IF Less(Num(Abs(slope.n), slope.d), I(100)) THEN "stable"
    ELSE IF slope.n > 0 THEN "increasing"
    ELSE "decreasing"

\* the (school_id, school_name) groups of a frame, in group-key order
RECURSIVE SortedKeys(_)
SortedKeys(K) ==
    IF K = {} THEN <<>>
    ELSE LET m == CHOOSE a \in K : \A b \in K :
                     \/ a.school_id < b.school_id
                     \/ /\ a.school_id = b.school_id
                        /\ NameRank(a.school_name) <= NameRank(b.school_name)
         IN  <<m>> \o SortedKeys(K \ {m})

OfSchool(df, key) ==
    SelectSeq(df, LAMBDA r : r.school_id = key.school_id /\ r.school_name = key.school_name)

HasSchool(df, key) == \E i \in 1..Len(df) : SchoolPairs(df)[i] = key

\* sort_values(col, ascending=False): missing values last, ties in input order
RECURSIVE SortDesc(_, _)
SortDesc(rows, col) ==
    LET ok == {i \in 1..Len(rows) : notna(rows[i][col])}
    IN  IF ok = {} THEN rows
        ELSE LET top == {i \in ok : \A j \in ok : Leq(rows[j][col], rows[i][col])}
                 m   == MinOf(top)
             IN  <<rows[m]>> \o
                 SortDesc([i \in 1..(Len(rows) - 1) |->
                              IF i < m THEN rows[i] ELSE rows[i + 1]], col)

\* groupby([school_id, school_name]).sum() of both frames, merged outer
MergeBySchool(enrol_df, grad_df) ==
    LET ks == SortedKeys(Range(SchoolPairs(enrol_df)) \cup Range(SchoolPairs(grad_df)))
    IN  [i \in 1..Len(ks) |->
            LET e == IF HasSchool(enrol_df, ks[i])
                     THEN SeriesSum(Col(OfSchool(enrol_df, ks[i]), "enrolment")) ELSE NaN
                g == IF HasSchool(grad_df, ks[i])
                     THEN SeriesSum(Col(OfSchool(grad_df, ks[i]), "graduates")) ELSE NaN
            IN  [school_id |-> ks[i].school_id, school_name |-> ks[i].school_name,
                 enrolment |-> e, graduates |-> g,
                 completion_rate |-> CompletionRate(g, e)]]

ZeroIfMissing(v) == IF notna(v) THEN v ELSE I(0)

get_school_breakdown(enrol_df, grad_df) ==
    LET merged == SortDesc(MergeBySchool(enrol_df, grad_df), "enrolment")
    IN  [i \in 1..Len(merged) |->
            [school_id |-> merged[i].school_id,
             school_name |-> merged[i].school_name,
             total_enrolment |-> ZeroIfMissing(merged[i].enrolment),
             total_graduates |-> ZeroIfMissing(merged[i].graduates),
             completion_rate |-> OrNone(merged[i].completion_rate)]]

InRange(df, lo, hi) == SelectSeq(df, LAMBDA r : r.year >= lo /\ r.year <= hi)

BySchoolId(df, opt) ==
    IF Given(opt) THEN SelectSeq(df, LAMBDA r : r.school_id = Val(opt)) ELSE df

enrollment_graduate_analysis(enrolment_csv, graduates_csv, start_opt, end_opt, school_opt) ==
    LET e0 == OnlyMF(CleanCount(enrolment_csv, "enrolment"))
        g0 == OnlyMF(CleanCount(graduates_csv, "graduates"))
        all_years  == SortedSeq(YearsOf(e0) \cap YearsOf(g0))
        start_year == IF Given(start_opt) THEN Val(start_opt)
                      ELSE IF all_years # <<>> THEN all_years[1] ELSE DefaultStart
        end_year   == IF Given(end_opt) THEN Val(end_opt)
                      ELSE IF all_years # <<>> THEN all_years[Len(all_years)] ELSE DefaultEnd
        e1 == InRange(e0, start_year, end_year)
        g1 == InRange(g0, start_year, end_year)
        schools  == DropDuplicates(SchoolPairs(e1), {})
        enrol_df == BySchoolId(e1, school_opt)
        grad_df  == BySchoolId(g1, school_opt)
        school_name == IF Given(school_opt)
                       THEN (IF Len(enrol_df) > 0 THEN enrol_df[1].school_name ELSE "Unknown")
                       ELSE "All Schools"
        merged == MergeByYear(SumByYear(enrol_df, "enrolment"),
                              SumByYear(grad_df, "graduates"))
        eg == PctChange(Col(merged, "enrolment"))
        gg == PctChange(Col(merged, "graduates"))
        enrol_trend == calculate_trend(YearCol(merged), Col(merged, "enrolment"))
        grad_trend  == calculate_trend(YearCol(merged), Col(merged, "graduates"))
    IN  [status |-> "ok",
         value |->
           [start_year |-> start_year,
            end_year |-> end_year,
            school_name |-> school_name,
            available_years |-> all_years,
            available_schools |-> schools,
            data |-> [i \in 1..Len(merged) |->
                [year |-> merged[i].year,
                 school_name |-> school_name,
                 enrolment |-> OrNone(merged[i].enrolment),
                 graduates |-> OrNone(merged[i].graduates),
                 completion_rate |-> OrNone(merged[i].completion_rate),
                 enrolment_growth |-> RoundOrNone(eg[i], 1),
                 graduates_growth |-> RoundOrNone(gg[i], 1)]],
            average_completion_rate |->
                RoundOrNone(SeriesMean(Col(merged, "completion_rate")), 1),
            statistics |->
               [total_enrolment |-> OrNone(SeriesSum(Col(merged, "enrolment"))),
                total_graduates |-> OrNone(SeriesSum(Col(merged, "graduates"))),
                enrolment_trend |-> enrol_trend,
                graduates_trend |-> grad_trend,
                enrolment_trend_interpretation |-> get_trend_interpretation(enrol_trend),
                graduates_trend_interpretation |-> get_trend_interpretation(grad_trend)],
            school_breakdown |->
                IF Given(school_opt) THEN <<>>
                ELSE get_school_breakdown(enrol_df, grad_df)]]

\* dropna(subset=[col])
DropMissing(df, col) == SelectSeq(df, LAMBDA r : notna(r[col]))

enrollment_by_school_for_year(enrolment_csv, graduates_csv, year) ==
    LET enrol_df == DropMissing(OfYear(OnlyMF(CleanCount(enrolment_csv, "enrolment")), year),
                                "enrolment")
        grad_df  == DropMissing(OfYear(OnlyMF(CleanCount(graduates_csv, "graduates")), year),
                                "graduates")
        merged   == SortDesc(MergeBySchool(enrol_df, grad_df), "enrolment")
        schools  == [i \in 1..Len(merged) |->
                        [school_id |-> merged[i].school_id,
                         school_name |-> merged[i].school_name,
                         enrolment |-> ZeroIfMissing(merged[i].enrolment),
                         graduates |-> ZeroIfMissing(merged[i].graduates),
                         completion_rate |-> OrNone(merged[i].completion_rate)]]
    IN  [status |-> "ok",
         value |-> [year |-> year, schools |-> schools, total_schools |-> Len(schools)]]

----------------------------------------------------------------------------
(* The join with schools_lookup.csv and the by-school / by-degree breakdowns *)

\* the school_name of a survey row whose school_id is in no lookup row
MissingName == "<NaN>"

Named(row, name) ==
    [year |-> row.year, school_id |-> row.school_id, school |-> row.school,
     degree |-> row.degree,
     employment_rate_overall |-> row.employment_rate_overall,
     employment_rate_ft_perm |-> row.employment_rate_ft_perm,
     gross_monthly_median |-> row.gross_monthly_median,
     basic_monthly_median |-> row.basic_monthly_median,
     school_name |-> name]

Matches(lookup, school_id) == SelectSeq(lookup, LAMBDA l : l.school_id = school_id)

\* df.merge(schools_lookup, on="school_id", how="left"): every left row once per
\* matching lookup row, in lookup order; once with a missing name when none matches
RECURSIVE MergeLookup(_, _)
MergeLookup(df, lookup) ==
    IF df = <<>> THEN <<>>
    ELSE LET m == Matches(lookup, Head(df).school_id)
         IN  (IF m = <<>> THEN <<Named(Head(df), MissingName)>>
              ELSE [i \in 1..Len(m) |-> Named(Head(df), m[i].school_name)])
             \o MergeLookup(Tail(df), lookup)

Rank(names, x) == CHOOSE i \in 1..Len(names) : names[i] = x

RECURSIVE SortedBy(_, _)
SortedBy(S, names) ==
    IF S = {} THEN <<>>
    ELSE LET m == CHOOSE a \in S : \A b \in S : Rank(names, a) <= Rank(names, b)
         IN  <<m>> \o SortedBy(S \ {m}, names)

\* the groups with dropna=False: the rows with a missing name form a last group
NameGroupsKeepMissing(df) ==
    SortedBy({df[i].school_name : i \in 1..Len(df)}, SchoolNames \o <<MissingName>>)

\* the groups of groupby("school_name"): rows with a missing name are in none
NameGroups(df) ==
    SortedBy({df[i].school_name : i \in 1..Len(df)} \ {MissingName}, SchoolNames)

employment_by_school(csv, lookup, year) ==
    LET Breakdown(year_df) ==
    LET names   == NameGroups(year_df)
        school_breakdown ==
            [i \in 1..Len(names) |->
                LET g == SelectSeq(year_df, LAMBDA r : r.school_name = names[i])
                IN  [school |-> names[i],
                     employment_rate_overall |->
                         Round(SeriesMean(Col(g, "employment_rate_overall")), 1),
                     employment_rate_ft_perm |->
                         Round(SeriesMean(Col(g, "employment_rate_ft_perm")), 1)]]
        sorted == SortDesc(school_breakdown, "employment_rate_overall")
    IN  [status |-> "ok",
         value |-> [year |-> year, schools |-> sorted, total_schools |-> Len(sorted)]]
    IN  Breakdown(OfYear(CleanRates(MergeLookup(csv, lookup)), year))

\* the filter reads merged_df, a name the function never binds: NameError
employment_by_degree(csv, lookup, year, school_name, metric_type) ==
    [status |-> "raise", exc |-> "NameError"]

----------------------------------------------------------------------------
(* salary_correlation.py: salary_employment_correlation *)

\* the values .replace(["N.A.", "na", "NA", "-"], pd.NA) turns into NA
Placeholders == {<<"N", ".", "A", ".">>, <<"n", "a">>, <<"N", "A">>, <<"-">>}

\* One cell of salary_correlation.clean_numeric_column(series).  Raw text: "%"
\* and "," are removed wherever they occur, a remainder that is one of the
\* placeholders becomes NA, the rest goes through to_numeric.  A cell read_csv
\* already parsed: as in clean_employment_column.
salary_clean_numeric_column(c) ==
    IF c.k = "raw"
    THEN LET t == StrRemove(StrRemove(c.s, <<"%">>), <<",">>)
         IN  IF t \in Placeholders THEN NaN ELSE to_numeric(t)
    ELSE IF IsNum(c) THEN c ELSE NaN

CleanSalary(df) ==
    [i \in 1..Len(df) |->
        [df[i] EXCEPT
            !.employment_rate_overall = salary_clean_numeric_column(@),
            !.employment_rate_ft_perm = salary_clean_numeric_column(@),
            !.gross_monthly_median = salary_clean_numeric_column(@),
            !.basic_monthly_median = salary_clean_numeric_column(@)]]

\* faculty names in their string order
Faculties == <<"Business", "Engineering">>

AtLeast(v, n, d) == Leq(Num(n, d), Num(Abs(v.n), v.d))

get_correlation_interpretation(correlation) ==
    IF correlation = None THEN [strength |-> "insufficient", direction |-> "none"]
    ELSE [strength |-> IF AtLeast(correlation, 7, 10) THEN "strong"
                       ELSE IF AtLeast(correlation, 4, 10) THEN "moderate"
                       ELSE IF AtLeast(correlation, 2, 10) THEN "weak"
                       ELSE "very weak or no",
          direction |-> IF correlation.n > 0 THEN "positive" ELSE "negative"]

\* Series.idxmax() / idxmin(): the first row holding the largest / smallest value
IdxMax(rows, col) ==
    MinOf({i \in 1..Len(rows) : \A j \in 1..Len(rows) : Leq(rows[j][col], rows[i][col])})

IdxMin(rows, col) ==
    MinOf({i \in 1..Len(rows) : \A j \in 1..Len(rows) : Leq(rows[i][col], rows[j][col])})

SalaryItem(row) ==
    [name |-> row.label, salary |-> row.gross_monthly_median,
     employment_rate |-> row.employment_rate_overall]

\* one group per row, whether or not an earlier row has the same key
RowLabels(df) == [i \in 1..Len(df) |-> df[i].school]

\* the group keys of groupby("school"): the distinct values of the faculty
\* column, ascending
GroupLabels(df) == SortedBy({df[i].school : i \in 1..Len(df)}, Faculties)

salary_employment_correlation(csv, lookup, year_opt, school_opt) ==
    LET Analyse(df) ==
    LET available_years   == SortedSeq(YearsOf(df))
        available_schools == NameGroups(df)
    IN  IF ~Given(year_opt) /\ available_years = <<>>
        THEN [status |-> "raise", exc |-> "ValueError"]      \* max([])
        ELSE
        LET year == IF Given(year_opt) THEN Val(year_opt)
                    ELSE available_years[Len(available_years)]
            y0 == OfYear(df, year)
            y1 == IF Given(school_opt)
                  THEN SelectSeq(y0, LAMBDA r : r.school_name = Val(school_opt)) ELSE y0
            year_df == SelectSeq(y1, LAMBDA r :
                          notna(r.employment_rate_overall) /\ notna(r.gross_monthly_median))
            labels == GroupLabels(year_df)
            analysis_df ==
                [i \in 1..Len(labels) |->
                    LET g == SelectSeq(year_df, LAMBDA r : r.school = labels[i])
                    IN  [label |-> labels[i],
                         employment_rate_overall |->
                             Round(SeriesMean(Col(g, "employment_rate_overall")), 1),
                         gross_monthly_median |->
                             Round(SeriesMean(Col(g, "gross_monthly_median")), 0)]]
            correlation_coefficient ==
                calculate_correlation(Col(analysis_df, "gross_monthly_median"),
                                      Col(analysis_df, "employment_rate_overall"))
            sorted == SortDesc(analysis_df, "gross_monthly_median")
        IN  IF analysis_df = <<>>
            THEN [status |-> "raise", exc |-> "ValueError"]  \* idxmax() of nothing
            ELSE [status |-> "ok",
                  value |->
                    [year |-> year,
                     available_years |-> available_years,
                     available_schools |-> available_schools,
                     selected_school |-> school_opt,
                     data |-> [i \in 1..Len(sorted) |->
                         [degree |-> sorted[i].label,
                          employment_rate |-> sorted[i].employment_rate_overall,
                          median_salary |-> sorted[i].gross_monthly_median]],
                     correlation_coefficient |-> correlation_coefficient,
                     statistics |->
                        [avg_median_salary |-> RoundOrNone(
                             SeriesMean(Col(analysis_df, "gross_monthly_median")), 0),
                         avg_employment_rate |-> RoundOrNone(
                             SeriesMean(Col(analysis_df, "employment_rate_overall")), 1),
                         highest_salary_school |->
                             SalaryItem(analysis_df[IdxMax(analysis_df, "gross_monthly_median")]),
                         lowest_salary_school |->
                             SalaryItem(analysis_df[IdxMin(analysis_df, "gross_monthly_median")]),
                         total_schools_analyzed |-> Len(sorted)],
                     interpretation |->
                         get_correlation_interpretation(correlation_coefficient)]]
    IN  Analyse(CleanSalary(MergeLookup(csv, lookup)))

\* app.py imports degree_historical_trends from salary_correlation, which does
\* not define it.  Written from the specification (sections 4.5 and 6): the
\* survey rows of one degree, and of one school when given, averaged by year.
degree_historical_trends(csv, lookup, degree, school_opt) ==
    LET Trends(d1) ==
    LET years == SortedSeq(YearsOf(d1))
    IN  [status |-> "ok",
         value |->
            [degree |-> degree,
             school |-> school_opt,
             schools_offering |-> NameGroups(d1),
             trends |-> [i \in 1..Len(years) |->
                 LET g == OfYear(d1, years[i])
                 IN  [year |-> years[i],
                      employment_rate |->
                          RoundOrNone(SeriesMean(Col(g, "employment_rate_overall")), 1),
                      median_salary |->
                          RoundOrNone(SeriesMean(Col(g, "gross_monthly_median")), 0)]],
             total_years |-> Len(years)]]
    IN  Trends(SelectSeq(CleanSalary(MergeLookup(csv, lookup)),
                         LAMBDA r : /\ r.degree = degree
                                    /\ Given(school_opt) => r.school_name = Val(school_opt)))


----------------------------------------------------------------------------
Idle == [status |-> "idle"]

\* the import script has not been started
NoLoad == [pc |-> "idle", connection |-> "none", ran |-> <<>>, banner |-> FALSE]

NoRequest == [endpoint |-> "none"]

NoResponse == [code |-> 0]

\* a function of the analytics package called directly, on readable files
Direct == unreadable = {} /\ request = NoRequest /\ response = NoResponse

\* salaries are whole numbers, rates are whole numbers or decimal fractions
ArrCells == {NaN, I(1), I(2), I(3)}

RateCells == {NaN, Num(1, 10), Num(2, 10), Num(3, 10)}

InitCorrelation ==
    /\ loader = NoLoad
    /\ ges = <<>> /\ schools_lookup = <<>> /\ enrol = <<>> /\ grad = <<>>
    /\ \E m \in 0..MaxArr : \E C \in {ArrCells, RateCells} :
       \E x \in [1..m -> ArrCells], y \in [1..m -> C] :
          call = [fn |-> "calculate_correlation", x |-> x, y |-> y]
    /\ frame = <<>>
    /\ result = Idle
    /\ Direct

CalculateCorrelation ==
    /\ call.fn = "calculate_correlation"
    /\ result = Idle
    /\ result' = [status |-> "ok", value |-> calculate_correlation(call.x, call.y)]
    /\ UNCHANGED <<ges, schools_lookup, enrol, grad, call, frame,
                 unreadable, request, response, loader>>

----------------------------------------------------------------------------
(* The survey relation and employment_trend *)

SurveyRow(year, school_id, school, degree, overall, ft_perm, gross) ==
    [year |-> year, school_id |-> school_id, school |-> school, degree |-> degree,
     employment_rate_overall |-> overall, employment_rate_ft_perm |-> ft_perm,
     gross_monthly_median |-> gross, basic_monthly_median |-> gross]

NoCall == [fn |-> "none"]

\* no call has been made on this request yet; the calls share no state, so a
\* call made after another one returned reaches nothing a fresh call does not
Fresh == call = NoCall

TrendRows ==
    {SurveyRow(y, 1, "Engineering", "CS", o, f, NaN) :
        y \in {2022, 2023}, o \in {Txt, I(0), I(90), I(95)}, f \in {NaN, I(85)}}

SlopeYears == {2020, 2021, 2022, 2023}

SlopeCells == {NaN, I(10), I(20)}

InitTrend ==
    /\ loader = NoLoad
    /\ schools_lookup = <<>> /\ enrol = <<>> /\ grad = <<>>
    /\ frame = <<>>
    /\ result = Idle
    /\ Direct
    /\ \/ /\ ges \in SeqsUpTo(TrendRows, MaxTrendRows)
          /\ call = NoCall
       \/ /\ ges = <<>>
          /\ \E Y \in SUBSET SlopeYears :
             \E v \in [1..Cardinality(Y) -> SlopeCells] :
             \E f \in {"compute_trend_strength", "calculate_trend"} :
                call = [fn |-> f, years |-> SortedSeq(Y), values |-> v]

EmploymentTrend ==
    /\ Fresh
    /\ call' = [fn |-> "employment_trend"]
    /\ result' = employment_trend(ges)
    /\ frame' = CleanRates(ges)
    /\ UNCHANGED <<ges, schools_lookup, enrol, grad, unreadable, request, response, loader>>

\* compute_trend_strength(df) on a frame of one row per year
ComputeTrendStrength ==
    /\ call.fn = "compute_trend_strength"
    /\ result = Idle
    /\ result' =
         [status |-> "ok",
          value |-> compute_trend_strength(
              [i \in 1..Len(call.years) |->
                  [year |-> call.years[i],
                   employment_rate_overall |-> call.values[i],
                   employment_rate_ft_perm |-> NaN]])]
    /\ UNCHANGED <<ges, schools_lookup, enrol, grad, call, frame,
                 unreadable, request, response, loader>>

CalculateTrend ==
    /\ call.fn = "calculate_trend"
    /\ result = Idle
    /\ result' =
         [status |-> "ok",
          value |-> calculate_trend([i \in 1..Len(call.years) |-> I(call.years[i])],
                                    call.values)]
    /\ UNCHANGED <<ges, schools_lookup, enrol, grad, call, frame,
                 unreadable, request, response, loader>>

NextTrend == EmploymentTrend \/ ComputeTrendStrength \/ CalculateTrend

SpecTrend == InitTrend /\ [][NextTrend]_vars

----------------------------------------------------------------------------
(* The enrolment and graduates relations and enrollment_graduate_analysis *)

SchoolNameOf(school_id) == SchoolNames[school_id]

ERow(year, sex, school_id, v) ==
    [year |-> year, sex |-> sex, school_id |-> school_id,
     school_name |-> SchoolNameOf(school_id), enrolment |-> v]

GRow(year, sex, school_id, v) ==
    [year |-> year, sex |-> sex, school_id |-> school_id,
     school_name |-> SchoolNameOf(school_id), graduates |-> v]

EnrolRows ==
    {ERow(2021, "MF", 1, I(0)), ERow(2021, "MF", 1, I(3)), ERow(2022, "MF", 1, I(3)),
     ERow(2022, "MF", 1, NaN), ERow(2021, "F", 1, I(3)), ERow(2022, "MF", 2, I(3))}

GradRows ==
    {GRow(2021, "MF", 1, I(0)), GRow(2021, "MF", 1, I(1)), GRow(2022, "MF", 1, I(1)),
     GRow(2022, "MF", 1, NaN), GRow(2021, "F", 1, I(1)), GRow(2022, "MF", 2, I(1))}

\* the (start_year, end_year, school_id) arguments tried; school 3 is in no relation
EnrolCalls ==
    {<<s, e, {}>> : s \in {{}, {2022}}, e \in {{}, {2021}}}
    \cup {<<{}, {}, {1}>>, <<{}, {}, {3}>>}

InitEnrol ==
    /\ loader = NoLoad
    /\ ges = <<>> /\ schools_lookup = <<>>
    /\ enrol \in SeqsUpTo(EnrolRows, MaxCount)
    /\ grad \in SeqsUpTo(GradRows, MaxCount)
    /\ call = NoCall
    /\ frame = <<>>
    /\ result = Idle
    /\ Direct

EnrollmentGraduateAnalysis ==
    /\ Fresh
    /\ \E a \in EnrolCalls :
          /\ call' = [fn |-> "enrollment_graduate_analysis",
                      start_year |-> a[1], end_year |-> a[2], school_id |-> a[3]]
          /\ result' = enrollment_graduate_analysis(enrol, grad, a[1], a[2], a[3])
    /\ frame' = <<>>
    /\ UNCHANGED <<ges, schools_lookup, enrol, grad, unreadable, request, response, loader>>

SpecEnrol == InitEnrol /\ [][EnrollmentGraduateAnalysis]_vars

EnrollmentBySchoolForYear ==
    /\ Fresh
    /\ \E year \in {2021, 2022} :
          /\ call' = [fn |-> "enrollment_by_school_for_year", year |-> year]
          /\ result' = enrollment_by_school_for_year(enrol, grad, year)
    /\ frame' = <<>>
    /\ UNCHANGED <<ges, schools_lookup, enrol, grad, unreadable, request, response, loader>>

NextSchools == EnrollmentGraduateAnalysis \/ EnrollmentBySchoolForYear

\* the two functions that report per-school totals
SpecSchools == InitEnrol /\ [][NextSchools]_vars

----------------------------------------------------------------------------
(* The survey relation joined with the school lookup *)

GesRows ==
    {SurveyRow(2022, 1, "Business",    "Accountancy", I(90), I(85), I(3000)),
     SurveyRow(2022, 2, "Engineering", "CS",          I(95), I(90), I(4000)),
     SurveyRow(2023, 1, "Engineering", "CS",          I(90), I(85), I(4000)),
     SurveyRow(2022, 1, "Engineering", "CS",          Txt,   NaN,   I(3000)),
     SurveyRow(2022, 2, "Business",    "Accountancy", I(90), I(85), NaN),
     SurveyRow(2022, 3, "Business",    "Accountancy", I(80), I(85), I(3000)),
     SurveyRow(2022, 1, "Business",    "Economics",   I(80), I(75), I(3500))}

LookupRows ==
    {[school_id |-> 1, school_name |-> "NUS"],
     [school_id |-> 1, school_name |-> "NTU"],
     [school_id |-> 2, school_name |-> "NTU"]}

InitSurvey ==
    /\ loader = NoLoad
    /\ ges \in SeqsUpTo(GesRows, MaxGes)
    /\ schools_lookup \in SeqsUpTo(LookupRows, MaxLookup)
    /\ enrol = <<>> /\ grad = <<>>
    /\ call = NoCall
    /\ frame = <<>>
    /\ result = Idle
    /\ Direct

EmploymentBySchool ==
    /\ Fresh
    /\ \E year \in {2022, 2023} :
          /\ call' = [fn |-> "employment_by_school", year |-> year]
          /\ result' = employment_by_school(ges, schools_lookup, year)
    /\ frame' = MergeLookup(ges, schools_lookup)
    /\ UNCHANGED <<ges, schools_lookup, enrol, grad, unreadable, request, response, loader>>

EmploymentByDegree ==
    /\ Fresh
    /\ \E year \in {2022}, school_name \in {"NUS", "SMU"},
          metric_type \in {"overall", "ft_perm"} :
          /\ call' = [fn |-> "employment_by_degree", year |-> year,
                      school_name |-> school_name, metric_type |-> metric_type]
          /\ result' = employment_by_degree(ges, schools_lookup, year,
                                            school_name, metric_type)
    /\ frame' = MergeLookup(ges, schools_lookup)
    /\ UNCHANGED <<ges, schools_lookup, enrol, grad, unreadable, request, response, loader>>

SalaryEmploymentCorrelation ==
    /\ Fresh
    /\ \E year \in {{}, {2021}, {2022}}, school \in {{}, {"NUS"}} :
          /\ call' = [fn |-> "salary_employment_correlation",
                      year |-> year, school |-> school]
          /\ result' = salary_employment_correlation(ges, schools_lookup, year, school)
    /\ frame' = MergeLookup(ges, schools_lookup)
    /\ UNCHANGED <<ges, schools_lookup, enrol, grad, unreadable, request, response, loader>>

NextSurvey == EmploymentBySchool \/ EmploymentByDegree \/ SalaryEmploymentCorrelation

SpecSurvey == InitSurvey /\ [][NextSurvey]_vars

SpecCorrelation == InitCorrelation /\ [][CalculateCorrelation]_vars

----------------------------------------------------------------------------
(* Raw cells and the two normalizers of the survey relation *)

RawChars == {"1", ".", "%", ",", "-", "n", "a"}

\* the texts the normalizers are documented on
Tokens ==
    {<<>>, <<"N", ".", "A", ".">>, <<"n", "a">>, <<"N", "A">>, <<"-">>,
     <<"1", "2", ".", "5", "%">>, <<"1", ",", "2", "3", "4">>, <<"9", "0">>}

\* what a cell of a column may hold: text, a number, a missing value
RawCells == {Raw(t) : t \in Tokens \cup SeqsUpTo(RawChars, MaxRaw)} \cup {NaN, Num(905, 10)}

InitNormalize ==
    /\ loader = NoLoad
    /\ ges = <<>> /\ schools_lookup = <<>> /\ enrol = <<>> /\ grad = <<>>
    /\ \E c \in RawCells :
       \E f \in {"clean_employment_column", "clean_numeric_column"} :
          call = [fn |-> f, cell |-> c]
    /\ frame = <<>>
    /\ result = Idle
    /\ Direct

CleanEmploymentColumn ==
    /\ call.fn = "clean_employment_column"
    /\ result = Idle
    /\ result' = [status |-> "ok", value |-> clean_employment_column(call.cell)]
    /\ UNCHANGED <<ges, schools_lookup, enrol, grad, call, frame,
                 unreadable, request, response, loader>>

CleanNumericColumn ==
    /\ call.fn = "clean_numeric_column"
    /\ result = Idle
    /\ result' = [status |-> "ok", value |-> salary_clean_numeric_column(call.cell)]
    /\ UNCHANGED <<ges, schools_lookup, enrol, grad, call, frame,
                 unreadable, request, response, loader>>

NextNormalize == CleanEmploymentColumn \/ CleanNumericColumn

SpecNormalize == InitNormalize /\ [][NextNormalize]_vars

----------------------------------------------------------------------------
(* app.py: the HTTP endpoints.  A query parameter is a set: empty when the
   request does not carry it (request.args.get then gives None), else one value *)

\* pd.read_csv at the head of a query function: a file that cannot be read
\* raises there, before any row is looked at
Reading(names, r) ==
    IF names \cap unreadable # {}
    THEN [status |-> "raise", exc |-> "FileNotFoundError"]
    ELSE r

\* the failure is swallowed and an empty payload served
AnswerDegraded(r) ==
    IF r.status = "ok"
    THEN [code |-> 200, success |-> TRUE, data |-> r.value]
    ELSE [code |-> 200, success |-> TRUE, data |-> <<>>]

\* try: ... return jsonify(success=True, data=result), 200
\* except Exception as e: return jsonify(success=False, error=str(e)), 500
Answer(r) ==
    IF r.status = "ok"
    THEN [code |-> 200, success |-> TRUE, data |-> r.value]
    ELSE [code |-> 500, success |-> FALSE, error |-> r.exc]

\* the handler returns 400 before it calls anything
Reject(req, error) ==
    /\ request' = req
    /\ response' = [code |-> 400, success |-> FALSE, error |-> error]
    /\ UNCHANGED <<call, frame, result, loader>>

\* the handler calls the query function c, which returns or raises r
Invoke(req, c, r) ==
    /\ request' = req
    /\ call' = c
    /\ result' = r
    /\ frame' = <<>>
    /\ response' = Answer(r)

Accepted == "accepted"

\* metric_type is not looked at
ByDegreeErrorAnyMetric(year, school, metric_type) ==
    IF year = {} THEN "Year parameter is required"
    ELSE IF school = {} THEN "School parameter is required"
    ELSE Accepted

\* the three checks of get_employment_by_degree, in their order
ByDegreeError(year, school, metric_type) ==
    IF year = {} THEN "Year parameter is required"
    ELSE IF school = {} THEN "School parameter is required"
    ELSE IF metric_type \notin {"overall", "ft_perm"}
         THEN "metric_type must be overall or ft_perm"
    ELSE Accepted

InitHttp ==
    /\ loader = NoLoad
    /\ ges \in SeqsUpTo(GesRows, MaxGes)
    /\ schools_lookup = <<[school_id |-> 1, school_name |-> "NUS"]>>
    /\ enrol = <<ERow(2022, "MF", 1, I(3))>>
    /\ grad = <<GRow(2022, "MF", 1, I(1))>>
    /\ unreadable \in {{}} \cup {{n} : n \in {"ges", "schools_lookup", "enrol", "grad"}}
    /\ call = NoCall
    /\ frame = <<>>
    /\ result = Idle
    /\ request = NoRequest
    /\ response = NoResponse

GetEmploymentTrends ==
    /\ request = NoRequest /\ Fresh
    /\ Invoke([endpoint |-> "employment-trends"],
              [fn |-> "employment_trend"],
              Reading({"ges"}, employment_trend(ges)))
    /\ UNCHANGED <<ges, schools_lookup, enrol, grad, unreadable, loader>>

GetEmploymentBySchool ==
    /\ request = NoRequest /\ Fresh
    /\ \E year \in {{}, {2022}} :
       LET req == [endpoint |-> "employment-by-school", year |-> year]
       IN  IF year = {}
           THEN Reject(req, "Year parameter is required")
           ELSE Invoke(req,
                       [fn |-> "employment_by_school", year |-> Val(year)],
                       Reading({"ges", "schools_lookup"},
                               employment_by_school(ges, schools_lookup, Val(year))))
    /\ UNCHANGED <<ges, schools_lookup, enrol, grad, unreadable, loader>>

\* metric_type defaults to "overall" when the request does not carry it
GetEmploymentByDegree ==
    /\ request = NoRequest /\ Fresh
    /\ \E year \in {{}, {2022}}, school \in {{}, {"NUS"}},
          metric_type \in {"overall", "ft_perm", "median"} :
       LET req == [endpoint |-> "employment-by-degree", year |-> year,
                   school |-> school, metric_type |-> metric_type]
           error == ByDegreeError(year, school, metric_type)
       IN  IF error # Accepted
           THEN Reject(req, error)
           ELSE Invoke(req,
                       [fn |-> "employment_by_degree", year |-> Val(year),
                        school_name |-> Val(school), metric_type |-> metric_type],
                       Reading({"ges", "schools_lookup"},
                               employment_by_degree(ges, schools_lookup, Val(year),
                                                    Val(school), metric_type)))
    /\ UNCHANGED <<ges, schools_lookup, enrol, grad, unreadable, loader>>

GetSalaryEmploymentCorrelation ==
    /\ request = NoRequest /\ Fresh
    /\ \E year \in {{}, {2022}}, school \in {{}, {"NUS"}} :
       Invoke([endpoint |-> "salary-employment-correlation",
               year |-> year, school |-> school],
              [fn |-> "salary_employment_correlation", year |-> year, school |-> school],
              Reading({"ges", "schools_lookup"},
                      salary_employment_correlation(ges, schools_lookup, year, school)))
    /\ UNCHANGED <<ges, schools_lookup, enrol, grad, unreadable, loader>>

GetDegreeHistoricalTrends ==
    /\ request = NoRequest /\ Fresh
    /\ \E degree \in {{}, {"CS"}}, school \in {{}, {"NUS"}} :
       LET req == [endpoint |-> "degree-historical-trends",
                   degree |-> degree, school |-> school]
       IN  IF degree = {}
           THEN Reject(req, "Degree parameter is required")
           ELSE Invoke(req,
                       [fn |-> "degree_historical_trends", degree |-> Val(degree),
                        school |-> school],
                       Reading({"ges", "schools_lookup"},
                               degree_historical_trends(ges, schools_lookup,
                                                        Val(degree), school)))
    /\ UNCHANGED <<ges, schools_lookup, enrol, grad, unreadable, loader>>

GetEnrollmentGraduateAnalysis ==
    /\ request = NoRequest /\ Fresh
    /\ \E a \in EnrolCalls :
       Invoke([endpoint |-> "enrollment-graduate-analysis",
               start_year |-> a[1], end_year |-> a[2], school_id |-> a[3]],
              [fn |-> "enrollment_graduate_analysis",
               start_year |-> a[1], end_year |-> a[2], school_id |-> a[3]],
              Reading({"enrol", "grad"},
                      enrollment_graduate_analysis(enrol, grad, a[1], a[2], a[3])))
    /\ UNCHANGED <<ges, schools_lookup, enrol, grad, unreadable, loader>>

GetEnrollmentBySchoolYear ==
    /\ request = NoRequest /\ Fresh
    /\ \E year \in {{}, {2022}} :
       LET req == [endpoint |-> "enrollment-by-school-year", year |-> year]
       IN  IF year = {}
           THEN Reject(req, "Year parameter is required")
           ELSE Invoke(req,
                       [fn |-> "enrollment_by_school_for_year", year |-> Val(year)],
                       Reading({"enrol", "grad"},
                               enrollment_by_school_for_year(enrol, grad, Val(year))))
    /\ UNCHANGED <<ges, schools_lookup, enrol, grad, unreadable, loader>>

NextHttp ==
    \/ GetEmploymentTrends
    \/ GetEmploymentBySchool
    \/ GetEmploymentByDegree
    \/ GetSalaryEmploymentCorrelation
    \/ GetDegreeHistoricalTrends
    \/ GetEnrollmentGraduateAnalysis
    \/ GetEnrollmentBySchoolYear

SpecHttp == InitHttp /\ [][NextHttp]_vars

----------------------------------------------------------------------------
(* Concurrent calls.  The development server answers each request on a thread
   of its own; a call reads its files into frames of its own, assigns the
   cleaned columns to those frames and returns.  In this specification call,
   frame and result hold one value per concurrent call. *)

Workers == 1..MaxCalls

\* the frame is written through to the relation it was read from
StoredInPlace(rel, local) == local

\* what a relation holds after a call has assigned columns of the frame read
\* from it: read_csv built a new frame, and no function writes a file
Stored(rel, local) == rel

InitConcurrent ==
    /\ loader = NoLoad
    /\ \E r \in GesRows : ges = <<r>>
    /\ schools_lookup = <<[school_id |-> 1, school_name |-> "NUS"]>>
    /\ enrol \in {<<ERow(2022, "MF", 1, I(3))>>, <<ERow(2022, "MF", 1, Txt)>>}
    /\ grad = <<GRow(2022, "MF", 1, I(1))>>
    /\ call = [w \in Workers |-> NoCall]
    /\ frame = [w \in Workers |-> <<>>]
    /\ result = [w \in Workers |-> Idle]
    /\ Direct

\* the call starts: pd.read_csv of the files
BeginCall ==
    /\ \E w \in Workers :
          /\ call[w] = NoCall
          /\ \E c \in {[fn |-> "employment_trend"],
                       [fn |-> "employment_by_school", year |-> 2022],
                       [fn |-> "employment_by_degree", year |-> 2022,
                        school_name |-> "NUS", metric_type |-> "overall"],
                       [fn |-> "salary_employment_correlation", year |-> {}, school |-> {}],
                       [fn |-> "enrollment_graduate_analysis",
                        start_year |-> {}, end_year |-> {}, school_id |-> {}],
                       [fn |-> "enrollment_by_school_for_year", year |-> 2022]} :
                call' = [call EXCEPT ![w] = c]
          /\ frame' = [frame EXCEPT ![w] =
                          [ges |-> ges, schools_lookup |-> schools_lookup,
                           enrol |-> enrol, grad |-> grad]]
    /\ UNCHANGED <<ges, schools_lookup, enrol, grad, result,
                   unreadable, request, response, loader>>

\* the rest of the call: the column assignments on its frames, then its result
FinishCall ==
    /\ \E w \in Workers :
       LET c     == call[w]
           local == frame[w]
           cleaned ==
               CASE c.fn \in {"employment_trend", "employment_by_school",
                              "employment_by_degree"} ->
                        [local EXCEPT !.ges = CleanRates(@)]
                 [] c.fn = "salary_employment_correlation" ->
                        [local EXCEPT !.ges = CleanSalary(@)]
                 [] OTHER ->
                        [local EXCEPT !.enrol = CleanCount(@, "enrolment"),
                                      !.grad = CleanCount(@, "graduates")]
       IN  /\ c # NoCall
           /\ result[w] = Idle
           /\ result' = [result EXCEPT ![w] =
                 CASE c.fn = "employment_trend" -> employment_trend(local.ges)
                   [] c.fn = "employment_by_school" ->
                         employment_by_school(local.ges, local.schools_lookup, c.year)
                   [] c.fn = "employment_by_degree" ->
                         employment_by_degree(local.ges, local.schools_lookup, c.year,
                                              c.school_name, c.metric_type)
                   [] c.fn = "salary_employment_correlation" ->
                         salary_employment_correlation(local.ges, local.schools_lookup,
                                                       c.year, c.school)
                   [] c.fn = "enrollment_graduate_analysis" ->
                         enrollment_graduate_analysis(local.enrol, local.grad,
                                                      c.start_year, c.end_year, c.school_id)
                   [] c.fn = "enrollment_by_school_for_year" ->
                         enrollment_by_school_for_year(local.enrol, local.grad, c.year)]
           /\ frame' = [frame EXCEPT ![w] = cleaned]
           /\ ges' = Stored(ges, cleaned.ges)
           /\ schools_lookup' = Stored(schools_lookup, cleaned.schools_lookup)
           /\ enrol' = Stored(enrol, cleaned.enrol)
           /\ grad' = Stored(grad, cleaned.grad)
    /\ UNCHANGED <<call, unreadable, request, response, loader>>

NextConcurrent == BeginCall \/ FinishCall

SpecConcurrent == InitConcurrent /\ [][NextConcurrent]_vars

----------------------------------------------------------------------------
(* The whole system: any of the data sources above, any of the calls *)

Init == InitTrend \/ InitEnrol \/ InitSurvey \/ InitCorrelation

Next ==
    \/ EmploymentTrend
    \/ ComputeTrendStrength
    \/ CalculateTrend
    \/ EnrollmentGraduateAnalysis
    \/ EnrollmentBySchoolForYear
    \/ EmploymentBySchool
    \/ EmploymentByDegree
    \/ SalaryEmploymentCorrelation
    \/ CalculateCorrelation

Spec == Init /\ [][Next]_vars

----------------------------------------------------------------------------
(* Helpers of the properties: plain integer sums over the raw inputs *)

RECURSIVE SumF(_, _)
SumF(S, f) ==
    IF S = {} THEN 0
    ELSE LET i == CHOOSE j \in S : TRUE IN f[i] + SumF(S \ {i}, f)

Returned == result.status = "ok"

Raised == result.status = "raise"

\* rows of the survey relation of year y whose cell in column col is a number
NumIdx(y, col) == {i \in 1..Len(ges) : ges[i].year = y /\ ges[i][col].k = "num"}

CellSum(S, col) == SumF(S, [i \in S |-> ges[i][col].n])

MaxYear == CHOOSE y \in YearsOf(ges) : \A z \in YearsOf(ges) : z <= y

\* the valid (year, value) pairs of a direct call of a slope routine
SlopeValid == {i \in 1..Len(call.values) : call.values[i].k = "num"}

SlopeCall == call.fn \in {"compute_trend_strength", "calculate_trend"}

SlopeDigits == IF call.fn = "compute_trend_strength" THEN 1000 ELSE 10

\* numerator and denominator of the least-squares slope over the valid pairs
OlsA ==
    LET V == SlopeValid
    IN  Cardinality(V) * SumF(V, [i \in V |-> call.years[i] * call.values[i].n])
        - SumF(V, [i \in V |-> call.years[i]]) * SumF(V, [i \in V |-> call.values[i].n])

OlsB ==
    LET V == SlopeValid
    IN  Cardinality(V) * SumF(V, [i \in V |-> call.years[i] * call.years[i]])
        - SumF(V, [i \in V |-> call.years[i]]) * SumF(V, [i \in V |-> call.years[i]])

\* some lookup row gives the school_id of survey row i the name `name`
ResolvesTo(i, name) ==
    \E j \in 1..Len(schools_lookup) :
        /\ schools_lookup[j].school_id = ges[i].school_id
        /\ schools_lookup[j].school_name = name

\* the name the first lookup row of that school_id gives, missing when there is none
FirstName(school_id) ==
    LET J == {j \in 1..Len(schools_lookup) : schools_lookup[j].school_id = school_id}
    IN  IF J = {} THEN MissingName ELSE schools_lookup[MinOf(J)].school_name

\* the survey rows salary_employment_correlation keeps: of the year asked for
\* (the latest one by default), of the school asked for, with a rate and a salary
SalaryKept ==
    {i \in 1..Len(ges) :
        /\ ges[i].year = (IF call.year # {} THEN Val(call.year) ELSE MaxYear)
        /\ call.school # {} => ResolvesTo(i, Val(call.school))
        /\ ges[i].employment_rate_overall.k = "num"
        /\ ges[i].gross_monthly_median.k = "num"}

MFYears(rel) == {rel[i].year : i \in {j \in 1..Len(rel) : rel[j].sex = "MF"}}

EffectiveStart ==
    IF call.start_year # {} THEN Val(call.start_year)
    ELSE IF MFYears(enrol) \cap MFYears(grad) # {}
         THEN MinOf(MFYears(enrol) \cap MFYears(grad)) ELSE DefaultStart

EffectiveEnd ==
    IF call.end_year # {} THEN Val(call.end_year)
    ELSE IF MFYears(enrol) \cap MFYears(grad) # {}
         THEN MaxOf(MFYears(enrol) \cap MFYears(grad)) ELSE DefaultEnd

\* the MF rows of a relation that the year range and the school filter keep
Matching(rel) ==
    {i \in 1..Len(rel) :
        /\ rel[i].sex = "MF"
        /\ EffectiveStart <= rel[i].year /\ rel[i].year <= EffectiveEnd
        /\ call.school_id # {} => rel[i].school_id = Val(call.school_id)}

AnalysisCall == call.fn = "enrollment_graduate_analysis"

----------------------------------------------------------------------------
(* C1: employment_by_degree, called with a (year, school name) pair for     *)
(* which no row of a non-empty survey relation of that year resolves to     *)
(* that school name, returns degrees = [] and total_degrees = 0 and raises  *)
(* no exception.                                                            *)
C1_ByDegreeUnknownSchoolIsEmpty ==
    (/\ call.fn = "employment_by_degree"
     /\ ges # <<>>
     /\ ~\E i \in 1..Len(ges) :
            ges[i].year = call.year /\ ResolvesTo(i, call.school_name))
    => /\ Returned
       /\ result.value.degrees = <<>>
       /\ result.value.total_degrees = 0

(* C2: salary_employment_correlation, called with a year and/or school      *)
(* filter that leaves zero rows of a non-empty survey relation after        *)
(* filtering and dropping rows with a missing rate or salary, returns       *)
(* data = [], correlation_coefficient None and a total count of 0, and      *)
(* raises no exception.                                                     *)
C2_SalaryNoRowsIsEmptyResult ==
    (/\ call.fn = "salary_employment_correlation"
     /\ ges # <<>>
     /\ SalaryKept = {})
    => /\ Returned
       /\ result.value.data = <<>>
       /\ result.value.correlation_coefficient = None
       /\ result.value.statistics.total_schools_analyzed = 0

(* C3: enrollment_graduate_analysis, for arguments that match zero MF rows  *)
(* in both sources (start_year > end_year, an unknown school_id, no MF rows *)
(* at all), returns data = [], both trends None, totals of zero and         *)
(* average_completion_rate None, without raising.                           *)
C3_AnalysisNoRowsIsEmptyResult ==
    AnalysisCall =>
        /\ Returned
        /\ (Matching(enrol) = {} /\ Matching(grad) = {}) =>
              /\ result.value.data = <<>>
              /\ result.value.statistics.enrolment_trend = None
              /\ result.value.statistics.graduates_trend = None
              /\ result.value.statistics.total_enrolment = I(0)
              /\ result.value.statistics.total_graduates = I(0)
              /\ result.value.average_completion_rate = None

\* both sources hold MF rows, start_year 2022 is after end_year 2021, and the
\* call returned the empty result
C3_Witness ==
    /\ AnalysisCall /\ Returned
    /\ call.start_year = {2022} /\ call.end_year = {2021}
    /\ \E i \in 1..Len(enrol) : enrol[i].sex = "MF"
    /\ \E i \in 1..Len(grad) : grad[i].sex = "MF"
    /\ result.value.data = <<>>
    /\ result.value.statistics.enrolment_trend = None
    /\ result.value.statistics.total_enrolment = I(0)

(* C4: in enrollment_graduate_analysis, for every year in data,             *)
(* completion_rate is None whenever that year's enrolment is missing, its   *)
(* graduates is missing, or its enrolment is zero; it is never infinite.    *)
C4_CompletionRateGuarded ==
    AnalysisCall =>
        /\ Returned
        /\ \A i \in 1..Len(result.value.data) :
              LET d == result.value.data[i]
              IN  /\ (d.enrolment = None \/ d.graduates = None \/ d.enrolment = I(0))
                         => d.completion_rate = None
                  /\ d.completion_rate.k \notin {"inf", "ninf"}

(* C5 as stated: when both operands are present and enrolment > 0,          *)
(* completion_rate equals graduates / enrolment * 100.                      *)
C5_CompletionRateIsExactRatio ==
    (AnalysisCall /\ Returned) =>
        \A i \in 1..Len(result.value.data) :
            LET d == result.value.data[i]
            IN  (d.enrolment.k = "num" /\ d.graduates.k = "num" /\ d.enrolment.n > 0) =>
                    /\ d.completion_rate.k = "num"
                    /\ d.completion_rate.n * d.enrolment.n
                           = 100 * d.graduates.n * d.completion_rate.d

(* C5 amended: a year whose summed enrolment is positive and whose summed   *)
(* graduates is 0 has completion_rate = 0.0, not None; in general, when     *)
(* both operands are present and enrolment > 0, completion_rate equals      *)
(* graduates / enrolment * 100 rounded to one decimal place.                *)
C5_CompletionRateIsRoundedRatio ==
    (AnalysisCall /\ Returned) =>
        \A i \in 1..Len(result.value.data) :
            LET d == result.value.data[i]
                r == d.completion_rate
            IN  (d.enrolment.k = "num" /\ d.graduates.k = "num" /\ d.enrolment.n > 0) =>
                    /\ r.k = "num"
                    /\ 10 % r.d = 0
                    /\ 20 * Abs(r.n * d.enrolment.n - 100 * d.graduates.n * r.d)
                           <= r.d * d.enrolment.n
                    /\ d.graduates.n = 0 => r = I(0)

\* one year has a rate of 33.3 for 1 graduate of 3 enrolled, another a rate of
\* 0.0 for no graduate of 3 enrolled
C5_Witness ==
    /\ AnalysisCall /\ Returned
    /\ \E i \in 1..Len(result.value.data) :
          LET d == result.value.data[i]
          IN  d.enrolment = I(3) /\ d.graduates = I(1) /\ d.completion_rate = Num(333, 10)
    /\ \E i \in 1..Len(result.value.data) :
          LET d == result.value.data[i]
          IN  d.enrolment = I(3) /\ d.graduates = I(0) /\ d.completion_rate = I(0)

----------------------------------------------------------------------------
(* C6: in employment_trend, stability_ratio is the mean ft-perm rate of the *)
(* latest (maximum) year divided by that year's mean overall rate; it is    *)
(* None whenever that overall rate is 0 or either rate is missing, and it   *)
(* is never an infinity, a NaN or a division error.                         *)
C6_StabilityRatio ==
    call.fn = "employment_trend" =>
        /\ Raised => result.exc # "ZeroDivisionError"
        /\ Returned =>
            LET r  == result.value.kpis.stability_ratio
                O  == NumIdx(MaxYear, "employment_rate_overall")
                F  == NumIdx(MaxYear, "employment_rate_ft_perm")
                so == CellSum(O, "employment_rate_overall")
                sf == CellSum(F, "employment_rate_ft_perm")
            IN  /\ r.k \in {"num", "none"}
                /\ (O = {} \/ F = {} \/ so = 0) => r = None
                /\ (O # {} /\ F # {} /\ so # 0) =>
                      /\ r.k = "num"
                      /\ r.n * so * Cardinality(F) = r.d * sf * Cardinality(O)

\* the latest year's overall rate is 0, its ft-perm rate is present, an
\* earlier year has a positive overall rate, and the ratio came back None
C6_Witness ==
    /\ call.fn = "employment_trend" /\ Returned
    /\ NumIdx(MaxYear, "employment_rate_overall") # {}
    /\ NumIdx(MaxYear, "employment_rate_ft_perm") # {}
    /\ CellSum(NumIdx(MaxYear, "employment_rate_overall"), "employment_rate_overall") = 0
    /\ \E i \in 1..Len(ges) :
          ges[i].year < MaxYear /\ ges[i].employment_rate_overall = I(90)
    /\ result.value.kpis.stability_ratio = None

(* C7: compute_trend_strength and calculate_trend return None, not 0 and    *)
(* not an exception, whenever fewer than 2 (year, value) pairs have a       *)
(* value; so does employment_trend's trend_strength when fewer than 2 years *)
(* have a rate.                                                             *)
C7_TooFewPairsGiveNone ==
    /\ (SlopeCall /\ result # Idle) =>
          /\ Returned
          /\ Cardinality(SlopeValid) < 2 => result.value = None
    /\ (call.fn = "employment_trend" /\ Returned) =>
          (Cardinality({y \in YearsOf(ges) :
                           NumIdx(y, "employment_rate_overall") # {}}) < 2
              => result.value.kpis.trend_strength = None)

\* calculate_trend returned None for two years of which one has a value
C7_Witness ==
    /\ call.fn = "calculate_trend" /\ Returned
    /\ Len(call.values) = 2
    /\ Cardinality(SlopeValid) = 1
    /\ result.value = None

C9_CorrelationNoneOrInRange ==
    (call.fn = "calculate_correlation" /\ result # Idle) =>
        LET P == {i \in 1..Len(call.x) : call.x[i].k = "num" /\ call.y[i].k = "num"}
            v == result.value
        IN  /\ Returned
            /\ Cardinality(P) < 2 => v = None
            /\ (\/ \A i, j \in P : call.x[i] = call.x[j]
                \/ \A i, j \in P : call.y[i] = call.y[j]) => v = None
            /\ v.k \in {"num", "none"}
            /\ v.k = "num" => (-v.d <= v.n /\ v.n <= v.d)

(* C10: joining the survey relation to the school lookup on school_id      *)
(* preserves the survey relation's row count for every lookup relation: an  *)
(* empty lookup or unmatched ids drop no rows (the name becomes missing),   *)
(* and duplicate school_id values in the lookup do not fan rows out, the    *)
(* first occurrence in lookup order is used.                                *)
C10_JoinPreservesRowCount ==
    call.fn \in {"employment_by_school", "salary_employment_correlation"} =>
        /\ Len(frame) = Len(ges)
        /\ \A i \in 1..Len(ges) :
              /\ frame[i].school_id = ges[i].school_id
              /\ frame[i].school_name = FirstName(ges[i].school_id)

----------------------------------------------------------------------------
\* a numeric field of a result holds a number or the explicit null
Emitted(v) == v.k \in {"num", "none"}

AllEmitted(rows, fields) ==
    \A i \in 1..Len(rows) : \A f \in fields : Emitted(rows[i][f])

(* C11: no result structure returned by a query function holds NaN or an    *)
(* infinity in a numeric field: every missing value, including a group mean *)
(* over all-missing inputs in employment_by_school and the average KPIs of  *)
(* employment_trend, is emitted as an explicit null.                        *)
C11_NoNaNInResults ==
    Returned =>
        LET v == result.value
        IN  CASE call.fn = "employment_by_school" ->
                    AllEmitted(v.schools,
                               {"employment_rate_overall", "employment_rate_ft_perm"})
              [] call.fn = "employment_trend" ->
                    /\ AllEmitted(v.trend,
                                  {"employment_rate_overall", "employment_rate_ft_perm"})
                    /\ Emitted(v.kpis.stability_ratio)
                    /\ Emitted(v.kpis.avg_employment_rate_overall)
                    /\ Emitted(v.kpis.avg_employment_rate_ft_perm)
                    /\ Emitted(v.kpis.trend_strength)
              [] call.fn = "salary_employment_correlation" ->
                    /\ AllEmitted(v.data, {"employment_rate", "median_salary"})
                    /\ Emitted(v.correlation_coefficient)
                    /\ Emitted(v.statistics.avg_median_salary)
                    /\ Emitted(v.statistics.avg_employment_rate)
              [] call.fn = "enrollment_graduate_analysis" ->
                    /\ AllEmitted(v.data,
                                  {"enrolment", "graduates", "completion_rate",
                                   "enrolment_growth", "graduates_growth"})
                    /\ Emitted(v.average_completion_rate)
                    /\ Emitted(v.statistics.enrolment_trend)
                    /\ Emitted(v.statistics.graduates_trend)
                    /\ AllEmitted(v.school_breakdown,
                                  {"total_enrolment", "total_graduates", "completion_rate"})
              [] call.fn = "enrollment_by_school_for_year" ->
                    AllEmitted(v.schools, {"enrolment", "graduates", "completion_rate"})
              [] OTHER -> TRUE

\* the rows of a relation with this school_id
OfSchoolId(rel, school_id) == {i \in 1..Len(rel) : rel[i].school_id = school_id}

(* C12: in the school-level outputs (get_school_breakdown, reached through  *)
(* enrollment_graduate_analysis without a school filter, and                *)
(* enrollment_by_school_for_year), a school that has rows in only one of    *)
(* the enrolment and graduates sources is reported with the other count as  *)
(* missing (null), never as 0.                                              *)
C12_OneSidedSchoolKeepsMissing ==
    /\ (call.fn = "enrollment_by_school_for_year" /\ Returned) =>
          \A i \in 1..Len(result.value.schools) :
              LET s == result.value.schools[i]
              IN  /\ OfSchoolId(grad, s.school_id) = {} => s.graduates = None
                  /\ OfSchoolId(enrol, s.school_id) = {} => s.enrolment = None
    /\ (AnalysisCall /\ Returned) =>
          \A i \in 1..Len(result.value.school_breakdown) :
              LET s == result.value.school_breakdown[i]
              IN  /\ OfSchoolId(grad, s.school_id) = {} => s.total_graduates = None
                  /\ OfSchoolId(enrol, s.school_id) = {} => s.total_enrolment = None

\* the rows of a relation that enrollment_graduate_analysis sums into year y
OfYearMatching(rel, y) == {i \in Matching(rel) : rel[i].year = y}

(* C13: the sum reducer used for enrolment and graduates per year excludes  *)
(* missing values, and a year group in which every value is missing yields  *)
(* a missing sum, reported as null, not 0.                                  *)
C13_SumOfAllMissingIsMissing ==
    (AnalysisCall /\ Returned) =>
        \A i \in 1..Len(result.value.data) :
            LET d  == result.value.data[i]
                E  == OfYearMatching(enrol, d.year)
                G  == OfYearMatching(grad, d.year)
                En == {j \in E : enrol[j].enrolment.k = "num"}
                Gn == {j \in G : grad[j].graduates.k = "num"}
            IN  /\ En # {} => d.enrolment = I(SumF(En, [j \in En |-> enrol[j].enrolment.n]))
                /\ Gn # {} => d.graduates = I(SumF(Gn, [j \in Gn |-> grad[j].graduates.n]))
                /\ (E # {} /\ En = {}) => d.enrolment = None
                /\ (G # {} /\ Gn = {}) => d.graduates = None

(* C14: the mean reducer ignores missing values within a group, and a group *)
(* whose values for a metric are all missing yields missing (null in        *)
(* employment_trend's trend list) for that metric, never 0; rows that       *)
(* repeat a (year, school, degree) are averaged like any others.            *)
C14_MeanIgnoresMissing ==
    (call.fn = "employment_trend" /\ Returned) =>
        /\ Len(result.value.trend) = Cardinality(YearsOf(ges))
        /\ \A i \in 1..Len(result.value.trend) :
           \A col \in {"employment_rate_overall", "employment_rate_ft_perm"} :
              LET t == result.value.trend[i]
                  N == NumIdx(t.year, col)
              IN  /\ N = {} => t[col] = None
                  /\ N # {} =>
                        /\ t[col].k = "num"
                        /\ t[col].n * Cardinality(N) = t[col].d * CellSum(N, col)

\* one year has a row without a rate and a row at 90 and averages to 90,
\* another year has no rate at all and comes back null
C14_Witness ==
    /\ call.fn = "employment_trend" /\ Returned
    /\ \E i, j \in 1..Len(ges) :
          /\ ges[i].year = 2022 /\ ges[i].employment_rate_overall = Txt
          /\ ges[j].year = 2022 /\ ges[j].employment_rate_overall = I(90)
    /\ Cardinality(NumIdx(2022, "employment_rate_overall")) = 1
    /\ YearsOf(ges) = {2022, 2023}
    /\ NumIdx(2023, "employment_rate_overall") = {}
    /\ result.value.trend[1].employment_rate_overall = I(90)
    /\ result.value.trend[2].employment_rate_overall = None

(* C15: the numeric normalizers (clean_employment_column and                *)
(* salary_correlation's clean_numeric_column) are total: for every raw cell *)
(* (text, number or missing) they return a number or missing without        *)
(* raising; each placeholder "", "N.A.", "na", "NA", "-" maps to missing,   *)
(* "12.5%" maps to 12.5, "1,234" maps to 1234, and missing maps to missing. *)
C15_NormalizersTotal ==
    (call.fn \in {"clean_employment_column", "clean_numeric_column"} /\ result # Idle) =>
        LET c == call.cell
            v == result.value
        IN  /\ Returned
            /\ v.k \in {"num", "nan"}
            /\ c \in {Raw(<<>>), Raw(<<"N", ".", "A", ".">>), Raw(<<"n", "a">>),
                      Raw(<<"N", "A">>), Raw(<<"-">>), NaN} => v = NaN
            /\ c = Raw(<<"1", "2", ".", "5", "%">>) => v = Num(125, 10)
            /\ c = Raw(<<"1", ",", "2", "3", "4">>) => v = I(1234)

----------------------------------------------------------------------------
\* the request lacks a parameter its endpoint requires, or names a metric that
\* is neither overall nor ft_perm
InvalidRequest ==
    \/ /\ request.endpoint \in {"employment-by-school", "employment-by-degree",
                                "enrollment-by-school-year"}
       /\ request.year = {}
    \/ /\ request.endpoint = "employment-by-degree"
       /\ (request.school = {} \/ request.metric_type \notin {"overall", "ft_perm"})
    \/ /\ request.endpoint = "degree-historical-trends"
       /\ request.degree = {}

(* C16: at the HTTP boundary a request that lacks a required parameter      *)
(* (year for by-school, by-degree and enrollment-by-school-year; school for *)
(* by-degree; degree for degree-historical-trends) or whose metric_type is  *)
(* neither overall nor ft_perm is answered with a structured 400, and the   *)
(* analytics function is never invoked.                                     *)
C16_InvalidRequestIsRejected ==
    InvalidRequest =>
        /\ response.code = 400
        /\ response.success = FALSE
        /\ call = NoCall
        /\ result = Idle

\* year and school are given, the metric is unknown, and a file the function
\* would read is missing: the answer is still the 400
C16_Witness ==
    /\ request.endpoint = "employment-by-degree"
    /\ request.year = {2022} /\ request.school = {"NUS"}
    /\ request.metric_type = "median"
    /\ unreadable = {"ges"}
    /\ response.code = 400
    /\ call = NoCall

\* the relations the called query function reads
Needed ==
    CASE call.fn = "employment_trend" -> {"ges"}
      [] call.fn = "degree_historical_trends" -> {"ges"}
      [] call.fn \in {"employment_by_school", "employment_by_degree",
                      "salary_employment_correlation"} -> {"ges", "schools_lookup"}
      [] call.fn \in {"enrollment_graduate_analysis",
                      "enrollment_by_school_for_year"} -> {"enrol", "grad"}
      [] OTHER -> {}

(* C17: when a relation cannot be read inside a query function, the         *)
(* function does not retry or degrade: the failure propagates, and every    *)
(* endpoint answers success=false with status 500, never 200.               *)
C17_UnreadableRelationGives500 ==
    (Needed \cap unreadable # {}) =>
        /\ result = [status |-> "raise", exc |-> "FileNotFoundError"]
        /\ response.code = 500
        /\ response.success = FALSE
        /\ response.error = "FileNotFoundError"

\* the lookup file is missing while the survey file, read first, is there
C17_Witness ==
    /\ request.endpoint = "employment-by-school"
    /\ unreadable = {"schools_lookup"}
    /\ Len(ges) > 0
    /\ call.fn = "employment_by_school"
    /\ Raised
    /\ response.code = 500

----------------------------------------------------------------------------
\* what the call c returns when it is the only call made on the relations
Alone(c) ==
    CASE c.fn = "employment_trend" -> employment_trend(ges)
      [] c.fn = "employment_by_school" -> employment_by_school(ges, schools_lookup, c.year)
      [] c.fn = "employment_by_degree" ->
            employment_by_degree(ges, schools_lookup, c.year, c.school_name, c.metric_type)
      [] c.fn = "salary_employment_correlation" ->
            salary_employment_correlation(ges, schools_lookup, c.year, c.school)
      [] c.fn = "enrollment_graduate_analysis" ->
            enrollment_graduate_analysis(enrol, grad, c.start_year, c.end_year, c.school_id)
      [] c.fn = "enrollment_by_school_for_year" ->
            enrollment_by_school_for_year(enrol, grad, c.year)

(* C19: no query function modifies the data source or any shared state:     *)
(* under every interleaving of concurrent calls each call returns what it   *)
(* returns when made alone, and the four relations are the same after any   *)
(* sequence of calls as before it.                                          *)
C19_CallsDoNotInterfere ==
    /\ [](\A w \in Workers : result[w] # Idle => result[w] = Alone(call[w]))
    /\ [][UNCHANGED <<ges, schools_lookup, enrol, grad>>]_vars

\* one call has returned after cleaning a text cell of its frame, while
\* another call that read the same file is still under way
C19_Witness ==
    /\ ges[1].employment_rate_overall = Txt
    /\ call[1].fn = "employment_trend" /\ result[1].status = "ok"
    /\ frame[1].ges[1].employment_rate_overall = NaN
    /\ call[2].fn = "employment_by_school" /\ result[2] = Idle

----------------------------------------------------------------------------
\* rows are in descending order of their rate, rows of equal rate in the order
\* of their keys, rows without a rate last
Ranked(rows, rate, key, names) ==
    \A i, j \in 1..Len(rows) : i < j =>
        LET a == rows[i][rate]
            b == rows[j][rate]
            keys == Rank(names, rows[i][key]) < Rank(names, rows[j][key])
        IN  \/ IsNum(a) /\ ~IsNum(b)
            \/ ~IsNum(a) /\ ~IsNum(b) /\ keys
            \/ IsNum(a) /\ IsNum(b) /\ Leq(b, a) /\ (Leq(a, b) => keys)

(* C20: the ranked breakdowns (the schools of employment_by_school, the     *)
(* degrees of employment_by_degree) are returned in descending order of the *)
(* rate, groups of equal rate in ascending order of the group key.          *)
C20_RankedBreakdownsOrdered ==
    /\ (call.fn = "employment_by_school" /\ result # Idle) =>
          /\ Returned
          /\ Ranked(result.value.schools, "employment_rate_overall", "school", SchoolNames)
    /\ (call.fn = "employment_by_degree" /\ result # Idle) =>
          /\ Returned
          /\ Ranked(result.value.degrees, "employment_rate", "degree",
                    <<"Accountancy", "CS">>)

----------------------------------------------------------------------------
\* the merged survey rows salary_employment_correlation aggregates
SalaryRows ==
    SelectSeq(CleanSalary(frame), LAMBDA r :
        /\ r.year = (IF call.year # {} THEN Val(call.year) ELSE MaxYear)
        /\ call.school # {} => r.school_name = Val(call.school)
        /\ notna(r.employment_rate_overall)
        /\ notna(r.gross_monthly_median))

\* the mean of a column over the rows of each label, not rounded
GroupMeans(rows, labels, col) ==
    [i \in 1..Len(labels) |->
        SeriesMean(Col(SelectSeq(rows, LAMBDA r : r.school = labels[i]), col))]

\* graduates / enrolment * 100 of an entry of data, not rounded
UnroundedRate(d) ==
    IF d.enrolment.k = "num" /\ d.graduates.k = "num"
    THEN FMul(FDiv(d.graduates, d.enrolment), I(100)) ELSE NaN

\* the mean overall rate of a school in the year asked for, not rounded
SchoolMean(name) ==
    SeriesMean(Col(SelectSeq(CleanRates(frame),
                             LAMBDA r : r.year = call.year /\ r.school_name = name),
                   "employment_rate_overall"))

(* C21: rounding is applied only to values as they are placed in the        *)
(* result: the correlation coefficient of salary_employment_correlation is  *)
(* computed from unrounded group means, average_completion_rate of          *)
(* enrollment_graduate_analysis from unrounded per-year rates (checked on   *)
(* results whose years all have a positive enrolment or none), and the      *)
(* ranked breakdown of employment_by_school is sorted on unrounded rates.   *)
C21_RoundingOnlyAtPresentation ==
    /\ (call.fn = "salary_employment_correlation" /\ Returned) =>
          LET rows   == SalaryRows
              labels == SortedBy({rows[i].school : i \in 1..Len(rows)}, Faculties)
          IN  result.value.correlation_coefficient
                 = calculate_correlation(GroupMeans(rows, labels, "gross_monthly_median"),
                                         GroupMeans(rows, labels, "employment_rate_overall"))
    /\ (/\ AnalysisCall /\ Returned
        /\ \A i \in 1..Len(result.value.data) : result.value.data[i].enrolment # I(0)) =>
          result.value.average_completion_rate
             = RoundOrNone(SeriesMean([i \in 1..Len(result.value.data) |->
                                          UnroundedRate(result.value.data[i])]), 1)
    /\ (call.fn = "employment_by_school" /\ Returned) =>
          \A i, j \in 1..Len(result.value.schools) :
              LET a == SchoolMean(result.value.schools[i].school)
                  b == SchoolMean(result.value.schools[j].school)
              IN  (i < j /\ IsNum(a) /\ IsNum(b)) => Leq(b, a)

----------------------------------------------------------------------------
\* the distinct values a set of survey rows has under a key
KeysOf(S, Key(_)) == {Key(i) : i \in S}

----------------------------------------------------------------------------
\* entry i of data has no usable previous value of the metric
NoPrevious(data, i, metric) ==
    i = 1 \/ data[i - 1][metric] = None \/ data[i - 1][metric] = I(0)

(* C23: in enrollment_graduate_analysis, enrolment_growth and               *)
(* graduates_growth of a year are None when the result has no previous      *)
(* year or the previous year's value is missing or zero; they are never     *)
(* infinite.                                                                *)
C23_GrowthGuarded ==
    (AnalysisCall /\ Returned) =>
        \A i \in 1..Len(result.value.data) :
            LET data == result.value.data
            IN  /\ NoPrevious(data, i, "enrolment") => data[i].enrolment_growth = None
                /\ NoPrevious(data, i, "graduates") => data[i].graduates_growth = None
                /\ data[i].enrolment_growth.k \notin {"inf", "ninf"}
                /\ data[i].graduates_growth.k \notin {"inf", "ninf"}

----------------------------------------------------------------------------
(* The two reports of enrolment and graduates totals, over relations whose  *)
(* counts are all present and that mix MF rows with rows of one sex         *)

InitTotals ==
    /\ loader = NoLoad
    /\ ges = <<>> /\ schools_lookup = <<>>
    /\ enrol \in SeqsUpTo({r \in EnrolRows : r.enrolment = I(3)}, MaxCount)
    /\ grad \in SeqsUpTo({r \in GradRows : r.graduates = I(1)}, MaxCount)
    /\ call = NoCall
    /\ frame = <<>>
    /\ result = Idle
    /\ Direct

SpecTotals == InitTotals /\ [][NextSchools]_vars

\* a relation without its rows of a single sex
WithoutSingleSex(rel) == SelectSeq(rel, LAMBDA r : r.sex = "MF")

\* the sum of the numeric cells of column col over the rows S of a relation
CountSum(rel, S, col) ==
    SumF({i \in S : rel[i][col].k = "num"},
         [i \in {j \in S : rel[j][col].k = "num"} |-> rel[i][col].n])

\* the yearly figure of a metric: absent without an MF row of the year in range
YearFigure(rel, y, col) ==
    IF OfYearMatching(rel, y) = {} THEN None
    ELSE I(CountSum(rel, OfYearMatching(rel, y), col))

\* the MF rows of a school in the year asked for
SchoolYearMF(rel, school_id) ==
    {i \in 1..Len(rel) : /\ rel[i].sex = "MF" /\ rel[i].year = call.year
                         /\ rel[i].school_id = school_id}

(* C24: in enrollment_graduate_analysis and enrollment_by_school_for_year   *)
(* every enrolment and graduates figure is the sum of the rows with         *)
(* sex = "MF" only, and the result is the one obtained from the relations   *)
(* without their rows of any other sex value.                               *)
C24_OnlyMFRowsCounted ==
    /\ (AnalysisCall /\ Returned) =>
          /\ \A i \in 1..Len(result.value.data) :
                LET d == result.value.data[i]
                IN  /\ d.enrolment = YearFigure(enrol, d.year, "enrolment")
                    /\ d.graduates = YearFigure(grad, d.year, "graduates")
          /\ result = enrollment_graduate_analysis(
                          WithoutSingleSex(enrol), WithoutSingleSex(grad),
                          call.start_year, call.end_year, call.school_id)
    /\ (call.fn = "enrollment_by_school_for_year" /\ Returned) =>
          /\ \A i \in 1..Len(result.value.schools) :
                LET d == result.value.schools[i]
                IN  /\ d.enrolment =
                          I(CountSum(enrol, SchoolYearMF(enrol, d.school_id), "enrolment"))
                    /\ d.graduates =
                          I(CountSum(grad, SchoolYearMF(grad, d.school_id), "graduates"))
          /\ result = enrollment_by_school_for_year(
                          WithoutSingleSex(enrol), WithoutSingleSex(grad), call.year)

\* the enrolment relation holds an MF row and an F row of 3 each for 2021 and
\* the figure reported for 2021 is 3
C24_Witness ==
    /\ AnalysisCall /\ Returned
    /\ \E i, j \in 1..Len(enrol) :
          /\ enrol[i].sex = "MF" /\ enrol[j].sex = "F"
          /\ enrol[i].year = 2021 /\ enrol[j].year = 2021
    /\ \E k \in 1..Len(result.value.data) :
          /\ result.value.data[k].year = 2021
          /\ result.value.data[k].enrolment = I(3)

----------------------------------------------------------------------------
\* the years of the MF rows of a relation that pass the filters given in the
\* call; a bound left out of the call excludes no year
RequestedYears(rel) ==
    {rel[i].year : i \in {j \in 1..Len(rel) :
        /\ rel[j].sex = "MF"
        /\ call.start_year # {} => Val(call.start_year) <= rel[j].year
        /\ call.end_year # {} => rel[j].year <= Val(call.end_year)
        /\ call.school_id # {} => rel[j].school_id = Val(call.school_id)}}

(* C25: in enrollment_graduate_analysis, every year that has MF rows in at  *)
(* least one of the two sources appears exactly once in data, in ascending  *)
(* year order, with the metric of the source that lacks that year reported  *)
(* as None; also when start_year and end_year are left to their defaults.   *)
C25_OuterJoinKeepsEveryYear ==
    (AnalysisCall /\ Returned) =>
        LET data == result.value.data
        IN  /\ {data[i].year : i \in 1..Len(data)}
                  = RequestedYears(enrol) \cup RequestedYears(grad)
            /\ \A i, j \in 1..Len(data) : i < j => data[i].year < data[j].year
            /\ \A i \in 1..Len(data) :
                  /\ data[i].year \notin RequestedYears(enrol) => data[i].enrolment = None
                  /\ data[i].year \notin RequestedYears(grad) => data[i].graduates = None

----------------------------------------------------------------------------
(* Direct calls of the two interpretation functions *)

\* slopes arrive rounded to one decimal: the largest magnitude tried, in tenths
MaxSlopeTenths == 1010

\* coefficients arrive rounded to three decimals
Thousand == 1000

Slopes == {None} \cup {Num(k, 10) : k \in (0 - MaxSlopeTenths)..MaxSlopeTenths}

Coefficients == {None} \cup {Num(k, Thousand) : k \in (0 - Thousand)..Thousand}

InitInterpretation ==
    /\ loader = NoLoad
    /\ ges = <<>> /\ schools_lookup = <<>> /\ enrol = <<>> /\ grad = <<>>
    /\ call = NoCall
    /\ frame = <<>>
    /\ result = Idle
    /\ Direct

GetTrendInterpretation ==
    /\ Fresh
    /\ \E slope \in Slopes :
          /\ call' = [fn |-> "get_trend_interpretation", slope |-> slope]
          /\ result' = [status |-> "ok", value |-> get_trend_interpretation(slope)]
    /\ UNCHANGED <<ges, schools_lookup, enrol, grad, frame, unreadable, request, response, loader>>

GetCorrelationInterpretation ==
    /\ Fresh
    /\ \E correlation \in Coefficients :
          /\ call' = [fn |-> "get_correlation_interpretation", correlation |-> correlation]
          /\ result' = [status |-> "ok",
                        value |-> get_correlation_interpretation(correlation)]
    /\ UNCHANGED <<ges, schools_lookup, enrol, grad, frame, unreadable, request, response, loader>>

NextInterpretation == GetTrendInterpretation \/ GetCorrelationInterpretation

SpecInterpretation == InitInterpretation /\ [][NextInterpretation]_vars

(* C26: get_trend_interpretation gives every defined slope exactly one      *)
(* label: stable when |slope| < 100, increasing when the slope is positive  *)
(* and not stable, decreasing when it is negative and not stable; a None    *)
(* slope gets no trend label but the insufficient-data message.             *)
C26_TrendLabel ==
    call.fn = "get_trend_interpretation" =>
        LET slope == call.slope
            tenths == IF slope = None THEN 0 ELSE (slope.n * 10) \div slope.d
        IN  /\ slope = None <=> result.value = "insufficient"
            /\ slope # None =>
                  /\ result.value \in {"stable", "increasing", "decreasing"}
                  /\ result.value = "stable" <=> (-1000 < tenths /\ tenths < 1000)
                  /\ result.value = "increasing" <=> tenths >= 1000
                  /\ result.value = "decreasing" <=> tenths <= -1000

\* a slope of exactly 100.0 is labelled increasing and one of -100.0 decreasing
C26_Witness ==
    /\ call.fn = "get_trend_interpretation"
    /\ \/ call.slope = I(100) /\ result.value = "increasing"
       \/ call.slope = I(-100) /\ result.value = "decreasing"

\* thousandths of a coefficient
Thousandths(c) == (c.n * Thousand) \div c.d

(* C27: get_correlation_interpretation assigns the strength band by         *)
(* absolute value (>= 0.7 strong, >= 0.4 moderate, >= 0.2 weak, otherwise   *)
(* very weak or none) and the direction by sign: positive above 0, negative *)
(* below 0, and a coefficient of exactly 0 is not reported as negative.     *)
C27_BandAndDirection ==
    (call.fn = "get_correlation_interpretation" /\ call.correlation # None) =>
        LET t == Thousandths(call.correlation)
            a == IF t < 0 THEN 0 - t ELSE t
        IN  /\ result.value.strength =
                  (IF a >= 700 THEN "strong"
                   ELSE IF a >= 400 THEN "moderate"
                   ELSE IF a >= 200 THEN "weak"
                   ELSE "very weak or no")
            /\ t > 0 => result.value.direction = "positive"
            /\ t < 0 => result.value.direction = "negative"
            /\ t = 0 => result.value.direction # "negative"

----------------------------------------------------------------------------
\* the (survey row, lookup row) pairs of the requested year that give the
\* school name `name`
PairsNamed(name) ==
    {p \in (1..Len(ges)) \X (1..Len(schools_lookup)) :
        /\ ges[p[1]].year = call.year
        /\ schools_lookup[p[2]].school_id = ges[p[1]].school_id
        /\ schools_lookup[p[2]].school_name = name}

\* the mean of the numeric overall rates over a set of pairs, to one decimal
PairMean(P) ==
    LET N == {p \in P : ges[p[1]].employment_rate_overall.k = "num"}
    IN  Round(Num(SumF(N, [p \in N |-> ges[p[1]].employment_rate_overall.n]),
                  Cardinality(N)), 1)

\* survey row i is of the requested year and no lookup row has its school_id
Unresolved(i) ==
    /\ ges[i].year = call.year
    /\ \A j \in 1..Len(schools_lookup) : schools_lookup[j].school_id # ges[i].school_id

(* C28: in employment_by_school, survey rows of the requested year whose    *)
(* school_id has no entry in the school lookup belong to no entry of        *)
(* schools and are not counted in total_schools; total_schools equals the   *)
(* number of entries of schools, each with a distinct non-missing name.     *)
C28_UnresolvedRowsInNoEntry ==
    (call.fn = "employment_by_school" /\ Returned) =>
        LET schools == result.value.schools
        IN  /\ result.value.total_schools = Len(schools)
            /\ \A i, j \in 1..Len(schools) : i # j => schools[i].school # schools[j].school
            /\ {schools[i].school : i \in 1..Len(schools)}
                  = {n \in Range(SchoolNames) : PairsNamed(n) # {}}
            /\ \A i \in 1..Len(schools) :
                  (\E p \in PairsNamed(schools[i].school) :
                        ges[p[1]].employment_rate_overall.k = "num")
                  => schools[i].employment_rate_overall
                        = PairMean(PairsNamed(schools[i].school))

\* a row of 80 with an unknown school_id next to a resolved row of another
\* rate: one entry, holding the resolved row's rate
C28_Witness ==
    /\ call.fn = "employment_by_school" /\ Returned
    /\ \E i \in 1..Len(ges) :
          Unresolved(i) /\ ges[i].employment_rate_overall = I(80)
    /\ result.value.total_schools = 1
    /\ result.value.schools[1].employment_rate_overall \in {I(90), I(95)}

----------------------------------------------------------------------------
(* load_data_to_mysql.py: main, one step at a time *)

\* the load functions in the order main calls them, by what they load
LoadSteps == <<"schools", "ges", "enrolment", "graduates">>

InitLoad ==
    /\ ges = <<>> /\ schools_lookup = <<>> /\ enrol = <<>> /\ grad = <<>>
    /\ call = NoCall
    /\ frame = <<>>
    /\ result = Idle
    /\ Direct
    /\ loader = NoLoad

Analytics == <<ges, schools_lookup, enrol, grad, call, frame, result,
               unreadable, request, response>>

\* the loop over required_files: main returns at the first file that is missing
CheckFiles ==
    /\ loader.pc = "idle"
    /\ \E found \in BOOLEAN :
          loader' = [loader EXCEPT !.pc = IF found THEN "connect" ELSE "returned"]
    /\ UNCHANGED Analytics

\* create_connection() gives a connection or None; main returns on None
CreateConnection ==
    /\ loader.pc = "connect"
    /\ \E connected \in BOOLEAN :
          loader' = IF connected
                    THEN [loader EXCEPT !.pc = "load", !.connection = "open"]
                    ELSE [loader EXCEPT !.pc = "returned"]
    /\ UNCHANGED Analytics

\* the next load function.  It returns True, or catches a mysql Error and
\* returns False (the connection may be lost by then), or lets any other
\* exception through to main; main does not read what it returns.
LoadStep ==
    /\ loader.pc = "load"
    /\ Len(loader.ran) < Len(LoadSteps)
    /\ LET step == LoadSteps[Len(loader.ran) + 1]
       IN  \E outcome \in (IF loader.connection = "open"
                           THEN {"True", "False", "lost", "raise"} ELSE {"False"}) :
              loader' =
                 IF outcome = "raise" THEN [loader EXCEPT !.pc = "except"]
                 ELSE [loader EXCEPT
                         !.ran = @ \o <<[step |-> step, ok |-> outcome = "True"]>>,
                         !.connection = IF outcome = "lost" THEN "lost" ELSE @]
    /\ UNCHANGED Analytics

\* print("DATA IMPORT COMPLETED SUCCESSFULLY!") after the fourth call
PrintBanner ==
    /\ loader.pc = "load"
    /\ Len(loader.ran) = Len(LoadSteps)
    /\ loader' = [loader EXCEPT !.pc = "summary", !.banner = TRUE]
    /\ UNCHANGED Analytics

\* the four COUNT(*) queries: any of them may raise, and they do on a lost
\* connection
DisplaySummary ==
    /\ loader.pc = "summary"
    /\ \E done \in (IF loader.connection = "open" THEN BOOLEAN ELSE {FALSE}) :
          loader' = [loader EXCEPT !.pc = IF done THEN "finally" ELSE "except"]
    /\ UNCHANGED Analytics

\* except Exception as e: print
HandleException ==
    /\ loader.pc = "except"
    /\ loader' = [loader EXCEPT !.pc = "finally"]
    /\ UNCHANGED Analytics

\* finally: if connection and connection.is_connected(): connection.close()
CloseConnection ==
    /\ loader.pc = "finally"
    /\ loader' = [loader EXCEPT !.pc = "returned",
                     !.connection = IF @ = "open" THEN "closed" ELSE @]
    /\ UNCHANGED Analytics

NextLoad ==
    \/ CheckFiles \/ CreateConnection \/ LoadStep \/ PrintBanner
    \/ DisplaySummary \/ HandleException \/ CloseConnection

SpecLoad == InitLoad /\ [][NextLoad]_vars

\* the load steps were called in the order of LoadSteps, none twice
RanInOrder == \A i \in 1..Len(loader.ran) : loader.ran[i].step = LoadSteps[i]

(* C29: in load_data_to_mysql.main the "DATA IMPORT COMPLETED               *)
(* SUCCESSFULLY!" banner is printed only on runs in which all four load     *)
(* steps (schools, GES, enrolment, graduates), executed in that order,      *)
(* succeeded; and a connection that was opened is no longer open when main  *)
(* has returned, on every path.                                             *)
C29_BannerOnlyAfterFourSuccesses ==
    /\ loader.banner =>
          /\ Len(loader.ran) = Len(LoadSteps)
          /\ RanInOrder
          /\ \A i \in 1..Len(loader.ran) : loader.ran[i].ok
    /\ loader.pc = "returned" => loader.connection # "open"

\* the half of C29 about the connection, and the order of the calls
C29_ConnectionClosedOnReturn ==
    /\ RanInOrder
    /\ loader.banner => Len(loader.ran) = Len(LoadSteps)
    /\ loader.pc = "returned" => loader.connection # "open"

====
